---- MODULE Spec2Model ----
(***************************************************************************)
(* Red-black tree containers of CLIP: Set (include/CLIP/Set.h) and Map     *)
(* (include/CLIP/Map.h).  Nodes live in a heap indexed by address; every   *)
(* C function is an operator from memory to memory, every public entry     *)
(* point one action.                                                       *)
(***************************************************************************)
EXTENDS Integers, FiniteSets, Sequences, TLC

\* ------------------------------------------------------------------ bounds
\* Elements of a Set exercised alone are the ints 1..MaxKey.
MaxKey == 8
\* Elements of the two Sets exercised with join are the ints 1..MaxJoinKey.
MaxJoinKey == 4
\* Map keys are the ints 1..MaxMapKey, map values the ints 1..MaxVal.
MaxMapKey == 5
MaxVal == 2
\* Keys of the container whose fix-up steps are followed are the ints 1..MaxStepKey.
MaxStepKey == 10
\* Keys of the containers whose links are followed through every operation,
\* join included, are the ints 1..MaxLinkKey.
MaxLinkKey == 5
\* Keys given to a Set and a Map side by side are the ints 1..MaxPairKey.
MaxPairKey == 8

\* --------------------------------------------------------------- constants
NULL == 0
SET_RED == 0
SET_BLACK == 1
MAP_RED == 0
MAP_BLACK == 1
Keys == 1..MaxKey
JoinKeys == 1..MaxJoinKey
MapKeys == 1..MaxMapKey
Values == 1..MaxVal
StepKeys == 1..MaxStepKey
LinkKeys == 1..MaxLinkKey
PairKeys == 1..MaxPairKey
\* Two Set objects exist, so that join has a destination and a source.
SetRefs == {1, 2}
\* Every Set has one block per possible element.
Largest(bounds) == CHOOSE b \in bounds : \A c \in bounds : c <= b
AddrStride == Largest({MaxKey, MaxJoinKey, MaxStepKey, MaxLinkKey, MaxPairKey})
SetAddrs == 1..(Cardinality(SetRefs) * AddrStride)
MapAddrs == 1..Largest({MaxMapKey, MaxStepKey, MaxLinkKey, MaxPairKey})

\* The userdata pointers handed to map_foreach: NULL or the address of an int.
UserData == Values \cup {NULL}

VARIABLES
  instance,   \* the container type this run instantiates: "Set" for Set(int),
              \* "AllocatedInt" for Set(AllocatedInt), "Map" for Map(int, int),
              \* "Pair" for a Set(int) and a Map(int, int) side by side
  heap,       \* live SetNode objects: address -> [value, left, right, parent, color]
  sets,       \* Set objects: reference -> [root, size]
  mheap,      \* live MapNode objects: address -> [key, value, left, right, parent, color]
  map,        \* the Map object: [root, size]
  cells,      \* live int blocks AllocatedInt elements point to: address -> int
  destructor_call_count,  \* int blocks free_allocated_int freed in the last call
  fault,      \* TRUE once a null reference was dereferenced
  op,         \* name of the last completed operation
  ret         \* value the last completed operation returned

vars == <<instance, heap, sets, cells, destructor_call_count, mheap, map, fault, op, ret>>

\* ============================================================ Set.h
\* The memory the Set functions work on.
\* trace lists, for the call in progress, the destructor calls and the node
\* blocks given back to free, in the order they happen.
\* destructor_call_count is reset before the call, as the tests do.
SetMem ==
  [heap |-> heap, sets |-> sets, fault |-> fault, cells |-> cells,
   destructor_call_count |-> 0, trace |-> << >>]

\* Memory m with two more records switched on for the call in progress:
\* steps lists the rotations, the call of the remove fix-up and the iterations
\* of the fix-up loops with the case each one took; compares lists the calls
\* of the comparator made by set_insert.
Watched(m) ==
  [f \in DOMAIN m \cup {"steps", "compares"} |->
     IF f \in {"steps", "compares"} THEN << >> ELSE m[f]]

\* Number of nodes from n up to the root, n included.
RECURSIVE Depth(_, _)
Depth(h, n) == IF n = NULL THEN 0 ELSE 1 + Depth(h, h[n].parent)

\* Memory m with one more step on record, if it keeps the record: what
\* happened, the node x it happened at (NULL for an empty slot), the parent x
\* hangs under, a second node w the step looked at, and the depth of the
\* slot of x.
Step(m, ev, x, x_parent, w) ==
  IF "steps" \in DOMAIN m
  THEN [m EXCEPT !.steps = Append(@, [ev |-> ev, x |-> x, x_parent |-> x_parent, w |-> w,
                                      depth |-> Depth(m.heap, x_parent) + 1])]
  ELSE m

\* compare_ints of the tests: (*a > *b) - (*a < *b).
compare_ints(a, b) == (IF a > b THEN 1 ELSE 0) - (IF a < b THEN 1 ELSE 0)

\* FREE_FN of CLIP_DEFINE_SET_TYPE_IMPL is not NULL: only Set(AllocatedInt) is
\* defined with a destructor (CLIP_DEFINE_SET_TYPE_WITH_FREE).
FREE_FN == instance = "AllocatedInt"

\* An AllocatedInt is a struct holding one int*; it is modelled by the address
\* of the int block, NULL for the zeroed struct.  Every int has three blocks
\* it can be allocated in: one per Set that can own it and one for a caller.
CellAddrs(val) == {val + i * AddrStride : i \in 0..Cardinality(SetRefs)}

\* new_allocated_int: malloc of an int block, *p = val.
new_allocated_int(m, val) ==
  LET p == CHOOSE a \in CellAddrs(val) :
             a \notin DOMAIN m.cells /\ \A b \in CellAddrs(val) \ DOMAIN m.cells : a <= b
  IN [m |-> [m EXCEPT !.cells = [a \in DOMAIN m.cells \cup {p} |->
                                   IF a = p THEN val ELSE m.cells[a]]],
      value |-> p]

\* compare_allocated_int: (*a->value > *b->value) - (*a->value < *b->value).
compare_allocated_int(m, a, b) == compare_ints(m.cells[a], m.cells[b])

\* free_allocated_int on the element of a node: a non-NULL int block is freed,
\* the pointer is set to NULL and the call is counted; freeing a block that
\* is not live is a fault.
free_allocated_int(m, node) ==
  LET p == m.heap[node].value IN
  IF p # NULL
  THEN [m EXCEPT !.cells = [a \in DOMAIN m.cells \ {p} |-> m.cells[a]],
                 !.fault = @ \/ p \notin DOMAIN m.cells,
                 !.heap[node].value = NULL,
                 !.destructor_call_count = @ + 1,
                 !.trace = Append(@, [ev |-> "dtor", node |-> node, cell |-> p])]
  ELSE [m EXCEPT !.trace = Append(@, [ev |-> "dtor", node |-> node, cell |-> NULL])]

\* CompareFunc of the instantiated Set type.
CompareFunc(m, a, b) ==
  IF FREE_FN THEN compare_allocated_int(m, a, b) ELSE compare_ints(a, b)

\* The int an element stands for: the element itself, or *value of an AllocatedInt.
ElementKey(m, value) == IF FREE_FN THEN m.cells[value] ELSE value

\* The block malloc hands to set_node_new.  Blocks are named after the Set
\* and the element they are allocated for: the tree code never orders
\* addresses, it only tests them for equality.
set_malloc(m, set, value) ==
  CHOOSE a \in SetAddrs :
    a \notin DOMAIN m.heap /\ a = (set - 1) * AddrStride + ElementKey(m, value)

set_node_new(m, set, value) ==
  LET node == set_malloc(m, set, value)
  IN [m |-> [m EXCEPT !.heap = [a \in DOMAIN m.heap \cup {node} |->
                 IF a = node
                 THEN [value |-> value, left |-> NULL, right |-> NULL,
                       parent |-> NULL, color |-> SET_RED]
                 ELSE m.heap[a]]],
      node |-> node]

set_free_node(m, node) ==
  [m EXCEPT !.heap = [a \in DOMAIN m.heap \ {node} |-> m.heap[a]],
            !.trace = Append(@, [ev |-> "free", node |-> node, cell |-> NULL])]

\* Mutant of rotate_left: the parent of the subtree that changes sides is
\* left as it was.
rotate_left_keeps_inner_parent(m, set, x) ==
  IF x = NULL \/ m.heap[x].right = NULL THEN [m EXCEPT !.fault = TRUE] ELSE
  LET m0 == Step(m, "rotate_left", x, m.heap[x].parent, m.heap[x].right)
      y  == m.heap[x].right
      h1 == [m.heap EXCEPT ![x].right = m.heap[y].left]
      h3 == [h1 EXCEPT ![y].parent = h1[x].parent]
      xp == h3[x].parent
      m4 == IF xp = NULL
            THEN [m0 EXCEPT !.heap = h3, !.sets[set].root = y]
            ELSE IF x = h3[xp].left
                 THEN [m0 EXCEPT !.heap = [h3 EXCEPT ![xp].left = y]]
                 ELSE [m0 EXCEPT !.heap = [h3 EXCEPT ![xp].right = y]]
  IN [m4 EXCEPT !.heap = [m4.heap EXCEPT ![y].left = x, ![x].parent = y]]

rotate_left(m, set, x) ==
  IF x = NULL \/ m.heap[x].right = NULL THEN [m EXCEPT !.fault = TRUE] ELSE
  LET m0 == Step(m, "rotate_left", x, m.heap[x].parent, m.heap[x].right)
      y  == m.heap[x].right
      h1 == [m.heap EXCEPT ![x].right = m.heap[y].left]
      h2 == IF h1[y].left # NULL THEN [h1 EXCEPT ![h1[y].left].parent = x] ELSE h1
      h3 == [h2 EXCEPT ![y].parent = h2[x].parent]
      xp == h3[x].parent
      m4 == IF xp = NULL
            THEN [m0 EXCEPT !.heap = h3, !.sets[set].root = y]
            ELSE IF x = h3[xp].left
                 THEN [m0 EXCEPT !.heap = [h3 EXCEPT ![xp].left = y]]
                 ELSE [m0 EXCEPT !.heap = [h3 EXCEPT ![xp].right = y]]
  IN [m4 EXCEPT !.heap = [m4.heap EXCEPT ![y].left = x, ![x].parent = y]]

rotate_right(m, set, y) ==
  IF y = NULL \/ m.heap[y].left = NULL THEN [m EXCEPT !.fault = TRUE] ELSE
  LET m0 == Step(m, "rotate_right", y, m.heap[y].parent, m.heap[y].left)
      x  == m.heap[y].left
      h1 == [m.heap EXCEPT ![y].left = m.heap[x].right]
      h2 == IF h1[x].right # NULL THEN [h1 EXCEPT ![h1[x].right].parent = y] ELSE h1
      h3 == [h2 EXCEPT ![x].parent = h2[y].parent]
      yp == h3[y].parent
      m4 == IF yp = NULL
            THEN [m0 EXCEPT !.heap = h3, !.sets[set].root = x]
            ELSE IF y = h3[yp].left
                 THEN [m0 EXCEPT !.heap = [h3 EXCEPT ![yp].left = x]]
                 ELSE [m0 EXCEPT !.heap = [h3 EXCEPT ![yp].right = x]]
  IN [m4 EXCEPT !.heap = [m4.heap EXCEPT ![x].right = y, ![y].parent = x]]

\* Mutant of insert_fixup: the root is blackened and nothing is rebalanced.
insert_fixup_root_only(m, set, z) ==
  [m EXCEPT !.heap[m.sets[set].root].color = SET_BLACK]

RECURSIVE insert_fixup(_, _, _)

\* Mutant of insert_fixup: after the rotation at the grandparent the parent
\* is rotated once more.
insert_fixup_left_outer_rotates_on(m, set, z) ==
  LET p == m.heap[z].parent
      g == m.heap[p].parent
  IN insert_fixup(rotate_left(rotate_right([m EXCEPT !.heap[p].color = SET_BLACK,
                                                     !.heap[g].color = SET_RED], set, g),
                              set, p),
                  set, z)

\* The tail of the uncle-black case for z->parent a left child: the parent
\* turns black, the grandparent red and is rotated right; the loop goes on.
insert_fixup_left_outer(m, set, z) ==
  LET p == m.heap[z].parent
      g == m.heap[p].parent
  IN insert_fixup(rotate_right([m EXCEPT !.heap[p].color = SET_BLACK,
                                         !.heap[g].color = SET_RED], set, g),
                  set, z)

\* The mirror image, for z->parent a right child.
insert_fixup_right_outer(m, set, z) ==
  LET p == m.heap[z].parent
      g == m.heap[p].parent
  IN insert_fixup(rotate_left([m EXCEPT !.heap[p].color = SET_BLACK,
                                        !.heap[g].color = SET_RED], set, g),
                  set, z)

insert_fixup(m, set, z) ==
  LET h  == m.heap
      zp == h[z].parent
  IN
  IF m.fault THEN m
  ELSE IF zp # NULL /\ h[zp].color = SET_RED
  THEN
    LET zpp == h[zp].parent IN
    IF zpp = NULL THEN [m EXCEPT !.fault = TRUE]
    ELSE IF zp = h[zpp].left
    THEN
      LET y == h[zpp].right IN
      IF y # NULL /\ h[y].color = SET_RED
      THEN insert_fixup([Step(m, "red_uncle", z, zp, y) EXCEPT !.heap[zp].color = SET_BLACK,
                                  !.heap[y].color = SET_BLACK,
                                  !.heap[zpp].color = SET_RED],
                        set, zpp)
      ELSE IF z = h[zp].right
      THEN insert_fixup_left_outer(rotate_left(Step(m, "black_uncle", z, zp, y), set, zp),
                                     set, zp)
      ELSE insert_fixup_left_outer(Step(m, "black_uncle", z, zp, y), set, z)
    ELSE
      LET y == h[zpp].left IN
      IF y # NULL /\ h[y].color = SET_RED
      THEN insert_fixup([Step(m, "red_uncle", z, zp, y) EXCEPT !.heap[zp].color = SET_BLACK,
                                  !.heap[y].color = SET_BLACK,
                                  !.heap[zpp].color = SET_RED],
                        set, zpp)
      ELSE IF z = h[zp].left
      THEN insert_fixup_right_outer(rotate_right(Step(m, "black_uncle", z, zp, y), set, zp),
                                     set, zp)
      ELSE insert_fixup_right_outer(Step(m, "black_uncle", z, zp, y), set, z)
  ELSE [m EXCEPT !.heap[m.sets[set].root].color = SET_BLACK]

\* Mutant of transplant: v->parent is left as it was.
transplant_keeps_parent(m, set, u, v) ==
  LET up == m.heap[u].parent
  IN IF up = NULL
     THEN [m EXCEPT !.sets[set].root = v]
     ELSE IF u = m.heap[up].left
          THEN [m EXCEPT !.heap = [m.heap EXCEPT ![up].left = v]]
          ELSE [m EXCEPT !.heap = [m.heap EXCEPT ![up].right = v]]

transplant(m, set, u, v) ==
  LET up == m.heap[u].parent
      m1 == IF up = NULL
            THEN [m EXCEPT !.sets[set].root = v]
            ELSE IF u = m.heap[up].left
                 THEN [m EXCEPT !.heap = [m.heap EXCEPT ![up].left = v]]
                 ELSE [m EXCEPT !.heap = [m.heap EXCEPT ![up].right = v]]
  IN IF v # NULL
     THEN [m1 EXCEPT !.heap = [m1.heap EXCEPT ![v].parent = m1.heap[u].parent]]
     ELSE m1

RECURSIVE remove_fixup(_, _, _, _)

\* Mutant of remove_fixup: after case 4 the anchor is x_parent, not the root.
remove_fixup_restart_keeps_anchor(m, set, x_parent) ==
  remove_fixup(m, set, x_parent, IF x_parent # NULL THEN m.heap[x_parent].parent ELSE NULL)

\* x = set->root, the last statement of case 4; the loop is entered again.
remove_fixup_restart(m, set, x_parent) ==
  remove_fixup(m, set, m.sets[set].root, x_parent)

\* Case 4 for x a left child: w takes the colour of x_parent, x_parent and
\* w->right turn black, x_parent is rotated left.
remove_fixup_left_case4(m, set, x, x_parent, w) ==
  LET c1 == IF w # NULL
            THEN IF x_parent = NULL THEN [m EXCEPT !.fault = TRUE]
                 ELSE [m EXCEPT !.heap[w].color = m.heap[x_parent].color]
            ELSE m
      c2 == IF x_parent # NULL THEN [c1 EXCEPT !.heap[x_parent].color = SET_BLACK] ELSE c1
      c3 == IF w # NULL /\ c2.heap[w].right # NULL
            THEN [c2 EXCEPT !.heap[c2.heap[w].right].color = SET_BLACK]
            ELSE c2
  IN remove_fixup_restart(rotate_left(Step(c3, "far_nephew_red", x, x_parent, w),
                                      set, x_parent),
                          set, x_parent)

\* Case 3 for x a left child: w->left turns black, w red, w is rotated right.
remove_fixup_left_case3(m, set, x, x_parent, w) ==
  LET wl == m.heap[w].left
      c1 == IF wl # NULL THEN [m EXCEPT !.heap[wl].color = SET_BLACK] ELSE m
  IN rotate_right(Step([c1 EXCEPT !.heap[w].color = SET_RED],
                       "near_nephew_red", x, x_parent, w),
                  set, w)

\* Cases 2, 3 and 4 for x a left child, w being the sibling after case 1.
remove_fixup_left_sibling(m, set, x, x_parent, w) ==
  IF w = NULL THEN [m EXCEPT !.fault = TRUE]
  ELSE
    LET wl == m.heap[w].left
        wr == m.heap[w].right
        far_black == (wr = NULL \/ m.heap[wr].color = SET_BLACK)
        up == IF x_parent # NULL THEN m.heap[x_parent].parent ELSE NULL
    IN
    IF (wl = NULL \/ m.heap[wl].color = SET_BLACK) /\ far_black
    THEN remove_fixup(Step([m EXCEPT !.heap[w].color = SET_RED],
                           "black_nephews", x_parent, up, w),
                      set, x_parent, up)
    ELSE IF far_black
    THEN remove_fixup_left_case4(
           remove_fixup_left_case3(m, set, x, x_parent, w), set, x, x_parent,
           IF x_parent # NULL
           THEN remove_fixup_left_case3(m, set, x, x_parent, w).heap[x_parent].right
           ELSE NULL)
    ELSE remove_fixup_left_case4(m, set, x, x_parent, w)

\* Case 1 for x a left child: a red sibling turns black, x_parent red and is
\* rotated left; w = x_parent->right is the sibling from then on.
remove_fixup_left_case1(m, set, x, x_parent, w) ==
  LET sibling(r) == Step(r, "red_sibling", x, x_parent, r.heap[x_parent].right)
  IN sibling(rotate_left([m EXCEPT !.heap[w].color = SET_BLACK,
                                   !.heap[x_parent].color = SET_RED],
                         set, x_parent))

\* The mirror image of the four cases, for x a right child.
remove_fixup_right_case4(m, set, x, x_parent, w) ==
  LET c1 == IF w # NULL
            THEN IF x_parent = NULL THEN [m EXCEPT !.fault = TRUE]
                 ELSE [m EXCEPT !.heap[w].color = m.heap[x_parent].color]
            ELSE m
      c2 == IF x_parent # NULL THEN [c1 EXCEPT !.heap[x_parent].color = SET_BLACK] ELSE c1
      c3 == IF w # NULL /\ c2.heap[w].left # NULL
            THEN [c2 EXCEPT !.heap[c2.heap[w].left].color = SET_BLACK]
            ELSE c2
  IN remove_fixup_restart(rotate_right(Step(c3, "far_nephew_red", x, x_parent, w),
                                       set, x_parent),
                          set, x_parent)

remove_fixup_right_case3(m, set, x, x_parent, w) ==
  LET wr == m.heap[w].right
      c1 == IF wr # NULL THEN [m EXCEPT !.heap[wr].color = SET_BLACK] ELSE m
  IN rotate_left(Step([c1 EXCEPT !.heap[w].color = SET_RED],
                      "near_nephew_red", x, x_parent, w),
                 set, w)

remove_fixup_right_sibling(m, set, x, x_parent, w) ==
  IF w = NULL THEN [m EXCEPT !.fault = TRUE]
  ELSE
    LET wl == m.heap[w].left
        wr == m.heap[w].right
        far_black == (wl = NULL \/ m.heap[wl].color = SET_BLACK)
        up == IF x_parent # NULL THEN m.heap[x_parent].parent ELSE NULL
    IN
    IF (wr = NULL \/ m.heap[wr].color = SET_BLACK) /\ far_black
    THEN remove_fixup(Step([m EXCEPT !.heap[w].color = SET_RED],
                           "black_nephews", x_parent, up, w),
                      set, x_parent, up)
    ELSE IF far_black
    THEN remove_fixup_right_case4(
           remove_fixup_right_case3(m, set, x, x_parent, w), set, x, x_parent,
           IF x_parent # NULL
           THEN remove_fixup_right_case3(m, set, x, x_parent, w).heap[x_parent].left
           ELSE NULL)
    ELSE remove_fixup_right_case4(m, set, x, x_parent, w)

remove_fixup_right_case1(m, set, x, x_parent, w) ==
  LET sibling(r) == Step(r, "red_sibling", x, x_parent, r.heap[x_parent].left)
  IN sibling(rotate_right([m EXCEPT !.heap[w].color = SET_BLACK,
                                    !.heap[x_parent].color = SET_RED],
                          set, x_parent))

\* Mutant of remove_fixup: after the rotation of case 1 the sibling is read
\* from the side of x.
remove_fixup_left_rereads_left(m, set, x, x_parent, w) ==
  IF w # NULL /\ m.heap[w].color = SET_RED
  THEN remove_fixup_left_sibling(
         remove_fixup_left_case1(m, set, x, x_parent, w), set, x, x_parent,
         remove_fixup_left_case1(m, set, x, x_parent, w).heap[x_parent].left)
  ELSE remove_fixup_left_sibling(m, set, x, x_parent, w)

\* One pass of the loop body for x a left child, w = x_parent->right.
remove_fixup_left(m, set, x, x_parent, w) ==
  IF w # NULL /\ m.heap[w].color = SET_RED
  THEN remove_fixup_left_sibling(
         remove_fixup_left_case1(m, set, x, x_parent, w), set, x, x_parent,
         remove_fixup_left_case1(m, set, x, x_parent, w).heap[x_parent].right)
  ELSE remove_fixup_left_sibling(m, set, x, x_parent, w)

\* One pass of the loop body for x a right child, w = x_parent->left.
remove_fixup_right(m, set, x, x_parent, w) ==
  IF w # NULL /\ m.heap[w].color = SET_RED
  THEN remove_fixup_right_sibling(
         remove_fixup_right_case1(m, set, x, x_parent, w), set, x, x_parent,
         remove_fixup_right_case1(m, set, x, x_parent, w).heap[x_parent].left)
  ELSE remove_fixup_right_sibling(m, set, x, x_parent, w)

remove_fixup(m, set, x, x_parent) ==
  IF m.fault THEN m
  ELSE IF x # m.sets[set].root /\ (x = NULL \/ m.heap[x].color = SET_BLACK)
  THEN
    IF x = (IF x_parent # NULL THEN m.heap[x_parent].left ELSE NULL)
    THEN remove_fixup_left(
           Step(m, "body", x, x_parent,
                IF x_parent # NULL THEN m.heap[x_parent].right ELSE NULL),
           set, x, x_parent, IF x_parent # NULL THEN m.heap[x_parent].right ELSE NULL)
    ELSE remove_fixup_right(
           Step(m, "body", x, x_parent,
                IF x_parent # NULL THEN m.heap[x_parent].left ELSE NULL),
           set, x, x_parent, IF x_parent # NULL THEN m.heap[x_parent].left ELSE NULL)
  ELSE IF x # NULL
       THEN [m EXCEPT !.heap[x].color = SET_BLACK]
       ELSE m

\* An AllocatedInt the comparator can read: its int block is live.  The
\* zeroed struct and a struct whose block was freed are not.
Live(m, a) == a # NULL /\ a \in DOMAIN m.cells

\* CompareFunc(&value, &x->value) is about to be called.  A memory that has
\* the field compares keeps the record of these calls: the element handed
\* in, the node and the element stored in it.  compare_allocated_int on an
\* element that is not live reads through a null or dangling pointer.
Compared(m, value, x) ==
  LET dead == FREE_FN /\ ~(Live(m, value) /\ Live(m, m.heap[x].value))
      m1   == [m EXCEPT !.fault = @ \/ dead]
  IN IF "compares" \in DOMAIN m
     THEN [m1 EXCEPT !.compares = Append(@, [a |-> value, x |-> x, b |-> m.heap[x].value])]
     ELSE m1

\* The descent loop of set_insert: the node the new one hangs under, or a duplicate.
RECURSIVE set_insert_loop(_, _, _, _)
set_insert_loop(m, value, y, x) ==
  IF x = NULL THEN [dup |-> FALSE, y |-> y, m |-> m]
  ELSE IF Compared(m, value, x).fault THEN [dup |-> FALSE, y |-> y, m |-> Compared(m, value, x)]
  ELSE LET cmp == CompareFunc(m, value, m.heap[x].value) IN
       IF cmp = 0 THEN [dup |-> TRUE, y |-> y, m |-> Compared(m, value, x)]
       ELSE set_insert_loop(Compared(m, value, x), value, x,
                            IF cmp < 0 THEN m.heap[x].left ELSE m.heap[x].right)

\* Mutant of set_insert_link: the new node is hung on the wrong side of its parent.
set_insert_link_wrong_side(n, set, y) ==
  LET z  == n.node
      m1 == [n.m EXCEPT !.heap[z].parent = y]
      m2 == IF y = NULL
            THEN [m1 EXCEPT !.sets[set].root = z]
            ELSE IF CompareFunc(n.m, n.m.heap[z].value, n.m.heap[y].value) > 0
                 THEN [m1 EXCEPT !.heap[y].left = z]
                 ELSE [m1 EXCEPT !.heap[y].right = z]
  IN [insert_fixup(m2, set, z) EXCEPT !.sets[set].size = @ + 1]

\* set_insert after the allocation: the node n.node is linked under y, the
\* fix-up runs and size is incremented.
set_insert_link(n, set, y) ==
  LET z  == n.node
      m1 == [(IF y = NULL THEN n.m ELSE Compared(n.m, n.m.heap[z].value, y))
               EXCEPT !.heap[z].parent = y]
      m2 == IF y = NULL
            THEN [m1 EXCEPT !.sets[set].root = z]
            ELSE IF CompareFunc(n.m, n.m.heap[z].value, n.m.heap[y].value) < 0
                 THEN [m1 EXCEPT !.heap[y].left = z]
                 ELSE [m1 EXCEPT !.heap[y].right = z]
  IN [insert_fixup(m2, set, z) EXCEPT !.sets[set].size = @ + 1]

\* set_insert after the descent loop d: return false on a duplicate, else
\* allocate the node and link it.
set_insert_found(d, set, value) ==
  IF d.dup \/ d.m.fault THEN [m |-> d.m, ret |-> FALSE]
  ELSE [m |-> set_insert_link(set_node_new(d.m, set, value), set, d.y), ret |-> TRUE]

set_insert(m, set, value) ==
  set_insert_found(set_insert_loop(m, value, NULL, m.sets[set].root), set, value)

\* Mutant of set_contains_node: the search turns the wrong way.
RECURSIVE set_contains_node_wrong_turn(_, _, _)
set_contains_node_wrong_turn(m, node, value) ==
  IF node = NULL THEN FALSE
  ELSE LET cmp == CompareFunc(m, value, m.heap[node].value) IN
       IF cmp = 0 THEN TRUE
       ELSE IF cmp > 0 THEN set_contains_node_wrong_turn(m, m.heap[node].left, value)
       ELSE set_contains_node_wrong_turn(m, m.heap[node].right, value)

RECURSIVE set_contains_node(_, _, _)
set_contains_node(m, node, value) ==
  IF node = NULL THEN FALSE
  ELSE LET cmp == CompareFunc(m, value, m.heap[node].value) IN
       IF cmp = 0 THEN TRUE
       ELSE IF cmp < 0 THEN set_contains_node(m, m.heap[node].left, value)
       ELSE set_contains_node(m, m.heap[node].right, value)

set_contains(m, set, value) == set_contains_node(m, m.sets[set].root, value)

RECURSIVE set_find_min_node(_, _)
set_find_min_node(m, node) ==
  IF node # NULL /\ m.heap[node].left # NULL
  THEN set_find_min_node(m, m.heap[node].left)
  ELSE node

\* The search loop of set_remove: the node holding value, or NULL.
RECURSIVE set_remove_loop(_, _, _)
set_remove_loop(m, value, z) ==
  IF z = NULL THEN NULL
  ELSE LET cmp == CompareFunc(m, value, m.heap[z].value) IN
       IF cmp = 0 THEN z
       ELSE IF cmp < 0 THEN set_remove_loop(m, value, m.heap[z].left)
       ELSE set_remove_loop(m, value, m.heap[z].right)

\* Mutant of set_remove: x_parent is the parent the successor had, also when
\* that parent is the node being removed.
set_remove_splice_tracks_old_parent(m, set, z) ==
  LET h == m.heap IN
  IF h[z].left = NULL
  THEN [m |-> transplant(m, set, z, h[z].right), x |-> h[z].right,
        x_parent |-> h[z].parent, y |-> z, y_original_color |-> h[z].color]
  ELSE IF h[z].right = NULL
  THEN [m |-> transplant(m, set, z, h[z].left), x |-> h[z].left,
        x_parent |-> h[z].parent, y |-> z, y_original_color |-> h[z].color]
  ELSE
    LET y  == set_find_min_node(m, h[z].right)
        x  == h[y].right
        m1 == IF h[y].parent = z
              THEN IF x # NULL THEN [m EXCEPT !.heap = [h EXCEPT ![x].parent = y]] ELSE m
              ELSE LET t  == transplant(m, set, y, h[y].right)
                       t1 == [t EXCEPT !.heap = [t.heap EXCEPT ![y].right = t.heap[z].right]]
                   IN IF t1.heap[y].right # NULL
                      THEN [t1 EXCEPT !.heap = [t1.heap EXCEPT ![t1.heap[y].right].parent = y]]
                      ELSE t1
        xp == h[y].parent
        m2 == transplant(m1, set, z, y)
        m3 == [m2 EXCEPT !.heap = [m2.heap EXCEPT ![y].left = m2.heap[z].left]]
        m4 == IF m3.heap[y].left # NULL
              THEN [m3 EXCEPT !.heap = [m3.heap EXCEPT ![m3.heap[y].left].parent = y]]
              ELSE m3
        m5 == [m4 EXCEPT !.heap = [m4.heap EXCEPT ![y].color = m4.heap[z].color]]
    IN [m |-> m5, x |-> x, x_parent |-> xp, y |-> y, y_original_color |-> h[y].color]

\* set_remove up to and including the splice: the memory, the fix-up anchor
\* x with its tracked parent, and the colour the spliced-out node had.
set_remove_splice(m, set, z) ==
  LET h == m.heap IN
  IF h[z].left = NULL
  THEN [m |-> transplant(m, set, z, h[z].right), x |-> h[z].right,
        x_parent |-> h[z].parent, y |-> z, y_original_color |-> h[z].color]
  ELSE IF h[z].right = NULL
  THEN [m |-> transplant(m, set, z, h[z].left), x |-> h[z].left,
        x_parent |-> h[z].parent, y |-> z, y_original_color |-> h[z].color]
  ELSE
    LET y  == set_find_min_node(m, h[z].right)
        x  == h[y].right
        m1 == IF h[y].parent = z
              THEN IF x # NULL THEN [m EXCEPT !.heap = [h EXCEPT ![x].parent = y]] ELSE m
              ELSE LET t  == transplant(m, set, y, h[y].right)
                       t1 == [t EXCEPT !.heap = [t.heap EXCEPT ![y].right = t.heap[z].right]]
                   IN IF t1.heap[y].right # NULL
                      THEN [t1 EXCEPT !.heap = [t1.heap EXCEPT ![t1.heap[y].right].parent = y]]
                      ELSE t1
        xp == IF h[y].parent = z THEN y ELSE m1.heap[y].parent
        m2 == transplant(m1, set, z, y)
        m3 == [m2 EXCEPT !.heap = [m2.heap EXCEPT ![y].left = m2.heap[z].left]]
        m4 == IF m3.heap[y].left # NULL
              THEN [m3 EXCEPT !.heap = [m3.heap EXCEPT ![m3.heap[y].left].parent = y]]
              ELSE m3
        m5 == [m4 EXCEPT !.heap = [m4.heap EXCEPT ![y].color = m4.heap[z].color]]
    IN [m |-> m5, x |-> x, x_parent |-> xp, y |-> y, y_original_color |-> h[y].color]

\* Mutant of set_remove_unlink: the remove fix-up is never run.
set_remove_unlink_without_fixup(s, set, z) ==
  [set_free_node(s.m, z) EXCEPT !.sets[set].size = @ - 1]

\* Mutant of set_remove: the destructor is called on the element of the
\* removed node before the node is freed.
set_remove_unlink_destroys(s, set, z) ==
  LET Dtor_fn(m1) == IF FREE_FN THEN free_allocated_int(m1, z) ELSE m1
      m2 == [set_free_node(Dtor_fn(s.m), z) EXCEPT !.sets[set].size = @ - 1]
  IN IF s.y_original_color = SET_BLACK
     THEN remove_fixup(Step(m2, "remove_fixup", s.x, s.x_parent, NULL), set, s.x, s.x_parent)
     ELSE m2

\* Mutant of set_remove: the fix-up is run whatever colour the node spliced
\* out had.
set_remove_unlink_fixes_any_colour(s, set, z) ==
  remove_fixup(Step([set_free_node(s.m, z) EXCEPT !.sets[set].size = @ - 1],
                    "remove_fixup", s.x, s.x_parent, NULL),
               set, s.x, s.x_parent)

\* set_remove after the splice: free(z), set->size--, and the fix-up when the
\* node spliced out was black.
set_remove_unlink(s, set, z) ==
  LET m2 == [set_free_node(s.m, z) EXCEPT !.sets[set].size = @ - 1]
  IN IF s.y_original_color = SET_BLACK
     THEN remove_fixup(Step(m2, "remove_fixup", s.x, s.x_parent, NULL), set, s.x, s.x_parent)
     ELSE m2

\* Mutant of set_remove: size is decremented before the lookup result is tested.
set_remove_counts_miss(m, set, value) ==
  LET z  == set_remove_loop(m, value, m.sets[set].root)
      m0 == [m EXCEPT !.sets[set].size = @ - 1]
  IN
  IF z = NULL THEN [m |-> m0, ret |-> FALSE]
  ELSE [m |-> set_remove_unlink(set_remove_splice(m0, set, z), set, z), ret |-> TRUE]

set_remove(m, set, value) ==
  LET z == set_remove_loop(m, value, m.sets[set].root) IN
  IF z = NULL THEN [m |-> m, ret |-> FALSE]
  ELSE [m |-> set_remove_unlink(set_remove_splice(m, set, z), set, z), ret |-> TRUE]

set_size(m, set) == m.sets[set].size

set_empty(m, set) == m.sets[set].size = 0

\* Mutant of set_clear_node: the node is destroyed and freed before its subtrees.
RECURSIVE set_clear_node_node_first(_, _)
set_clear_node_node_first(m, node) ==
  IF node = NULL THEN m
  ELSE LET Dtor_fn(m2) == IF FREE_FN THEN free_allocated_int(m2, node) ELSE m2
           right(m1)   == set_clear_node_node_first(m1, m.heap[node].right)
           left(m1)    == set_clear_node_node_first(m1, m.heap[node].left)
       IN right(left(set_free_node(Dtor_fn(m), node)))

RECURSIVE set_clear_node(_, _)
set_clear_node(m, node) ==
  IF node = NULL THEN m
  ELSE LET Dtor_fn(m2) == IF FREE_FN THEN free_allocated_int(m2, node) ELSE m2
           right(m1)   == Dtor_fn(set_clear_node(m1, m1.heap[node].right))
       IN set_free_node(right(set_clear_node(m, m.heap[node].left)), node)

\* Set_##Type set = {0}.
init_set == [root |-> NULL, size |-> 0]

\* Mutant of set_clear: root is not reset.
set_clear_keeps_root(m, set) ==
  LET m1 == set_clear_node(m, m.sets[set].root)
  IN [m1 EXCEPT !.sets[set].size = 0]

\* Mutant of set_clear: size is not reset.
set_clear_keeps_size(m, set) ==
  LET m1 == set_clear_node(m, m.sets[set].root)
  IN [m1 EXCEPT !.sets[set].root = NULL]

set_clear(m, set) ==
  LET m1 == set_clear_node(m, m.sets[set].root)
  IN [m1 EXCEPT !.sets[set] = [root |-> NULL, size |-> 0]]

\* Mutant of set_join_recursive: the right subtree of a source node is skipped.
RECURSIVE set_join_recursive_skips_right(_, _, _)
set_join_recursive_skips_right(m, dest, node) ==
  IF node = NULL THEN m
  ELSE LET moved(r)   == IF r.ret THEN [r.m EXCEPT !.heap[node].value = 0] ELSE r.m
           insert(m2) == moved(set_insert(m2, dest, m2.heap[node].value))
       IN insert(set_join_recursive_skips_right(m, dest, m.heap[node].left))

\* Mutant of set_join_recursive: the value of a moved source node is not zeroed.
RECURSIVE set_join_recursive_keeps_value(_, _, _)
set_join_recursive_keeps_value(m, dest, node) ==
  IF node = NULL THEN m
  ELSE LET insert(m2) == set_insert(m2, dest, m2.heap[node].value).m
           right(m1)  == insert(set_join_recursive_keeps_value(m1, dest, m1.heap[node].right))
       IN right(set_join_recursive_keeps_value(m, dest, m.heap[node].left))

\* Mutant of set_join_recursive: after a successful insert the element of
\* the new node of dest is zeroed, not that of the source node.
RECURSIVE set_join_recursive_zeroes_stored(_, _, _)
set_join_recursive_zeroes_stored(m, dest, node) ==
  IF node = NULL THEN m
  ELSE LET moved(m2, r) ==
             IF r.ret
             THEN [r.m EXCEPT !.heap = [n \in DOMAIN r.m.heap |->
                                          IF n \in DOMAIN m2.heap THEN r.m.heap[n]
                                          ELSE [r.m.heap[n] EXCEPT !.value = 0]]]
             ELSE r.m
           insert(m2) == moved(m2, set_insert(m2, dest, m2.heap[node].value))
           right(m1)  == insert(set_join_recursive_zeroes_stored(m1, dest, m1.heap[node].right))
       IN right(set_join_recursive_zeroes_stored(m, dest, m.heap[node].left))

RECURSIVE set_join_recursive(_, _, _)
set_join_recursive(m, dest, node) ==
  IF node = NULL THEN m
  ELSE LET moved(r)   == IF r.ret THEN [r.m EXCEPT !.heap[node].value = 0] ELSE r.m
           insert(m2) == moved(set_insert(m2, dest, m2.heap[node].value))
           right(m1)  == insert(set_join_recursive(m1, dest, m1.heap[node].right))
       IN right(set_join_recursive(m, dest, m.heap[node].left))

\* Mutant of set_join: the size of dest is returned instead of its growth.
set_join_returns_size(m, dest, src) ==
  IF src = NULL \/ dest = NULL \/ set_empty(m, src) THEN [m |-> m, ret |-> 0]
  ELSE
    LET joined(m1) == [m |-> set_clear(m1, src), ret |-> set_size(m1, dest)]
    IN joined(set_join_recursive(m, dest, m.sets[src].root))

\* Mutant of set_join: with dest NULL the source is cleared all the same.
set_join_clears_without_dest(m, dest, src) ==
  IF src = NULL \/ set_empty(m, src) THEN [m |-> m, ret |-> 0]
  ELSE IF dest = NULL THEN [m |-> set_clear(m, src), ret |-> 0]
  ELSE
    LET joined(m1) == [m |-> set_clear(m1, src),
                       ret |-> set_size(m1, dest) - set_size(m, dest)]
    IN joined(set_join_recursive(m, dest, m.sets[src].root))

\* Mutant of set_join: a set joined into itself is left alone.
set_join_guards_self(m, dest, src) ==
  IF src = NULL \/ dest = NULL \/ dest = src \/ set_empty(m, src) THEN [m |-> m, ret |-> 0]
  ELSE
    LET initial_size == set_size(m, dest)
        joined(m1)   == LET final_size == set_size(m1, dest)
                        IN [m |-> set_clear(m1, src), ret |-> final_size - initial_size]
    IN joined(set_join_recursive(m, dest, m.sets[src].root))

set_join(m, dest, src) ==
  IF src = NULL \/ dest = NULL \/ set_empty(m, src) THEN [m |-> m, ret |-> 0]
  ELSE
    LET initial_size == set_size(m, dest)
        joined(m1)   == LET final_size == set_size(m1, dest)
                        IN [m |-> set_clear(m1, src), ret |-> final_size - initial_size]
    IN joined(set_join_recursive(m, dest, m.sets[src].root))

\* Mutant of free_set: the set is reset without its nodes being cleared.
free_set_drops_nodes(m, set) == [m EXCEPT !.sets[set] = [root |-> NULL, size |-> 0]]

free_set(m, set) == set_clear(m, set)

\* set_to_str_node: the in-order walk; the result is the sequence of elements
\* handed to elem_to_str (the buffer is sized to hold them all).
RECURSIVE set_to_str_node(_, _)
set_to_str_node(m, node) ==
  IF node = NULL THEN << >>
  ELSE set_to_str_node(m, m.heap[node].left)
       \o << m.heap[node].value >>
       \o set_to_str_node(m, m.heap[node].right)

\* ------------------------------------------------------------ Set actions
\* The element a caller passes for the int val: val itself to a Set(int), a
\* new AllocatedInt to a Set(AllocatedInt).
new_element(m, val) ==
  IF FREE_FN THEN new_allocated_int(m, val) ELSE [m |-> m, value |-> val]

\* After a call the caller frees the int blocks no node points to: the
\* element of a rejected insert, the probe of a remove, the element of a node
\* remove reclaimed.  The Set never sees these blocks again.
caller_release(m) ==
  [m EXCEPT !.cells = [a \in DOMAIN m.cells \cap {m.heap[n].value : n \in DOMAIN m.heap}
                         |-> m.cells[a]]]

\* Between calls an int block is named after the one node that points to it:
\* malloc may hand out any free block and the code never compares the
\* addresses of two blocks, so this picks one state per class of states that
\* differ in block addresses only.
block_names(m) ==
  LET owns(n) == /\ m.heap[n].value \in DOMAIN m.cells
                 /\ \A k \in DOMAIN m.heap \ {n} : m.heap[k].value # m.heap[n].value
      moved   == {n \in DOMAIN m.heap : owns(n)}
      kept    == DOMAIN m.cells \ {m.heap[n].value : n \in moved}
  IN [m EXCEPT !.heap  = [n \in DOMAIN m.heap |->
                            IF n \in moved THEN [m.heap[n] EXCEPT !.value = n]
                            ELSE m.heap[n]],
               !.cells = [a \in moved \cup kept |->
                            IF a \in moved THEN m.cells[m.heap[a].value]
                            ELSE m.cells[a]]]

SetStep(r, name) ==
  /\ heap' = IF FREE_FN THEN block_names(caller_release(r.m)).heap ELSE r.m.heap
  /\ sets' = r.m.sets
  /\ cells' = IF FREE_FN THEN block_names(caller_release(r.m)).cells ELSE r.m.cells
  /\ destructor_call_count' = r.m.destructor_call_count
  /\ fault' = r.m.fault
  /\ op' = name
  /\ ret' = r.ret
  /\ UNCHANGED <<instance, mheap, map>>

SetInsert(set, value) ==
  /\ instance \in {"Set", "AllocatedInt"} /\ ~fault
  /\ LET e == new_element(SetMem, value)
     IN SetStep(set_insert(e.m, set, e.value), "insert")

SetRemove(set, value) ==
  /\ instance \in {"Set", "AllocatedInt"} /\ ~fault
  /\ LET e == new_element(SetMem, value)
     IN SetStep(set_remove(e.m, set, e.value), "remove")

SetClear(set) ==
  /\ instance \in {"Set", "AllocatedInt"} /\ ~fault
  /\ SetStep([m |-> set_clear(SetMem, set), ret |-> 0], "clear")

\* Set_free(Type, set): free_set on an initialised set.
SetFree(set) ==
  /\ instance \in {"Set", "AllocatedInt"} /\ ~fault
  /\ SetStep([m |-> free_set(SetMem, set), ret |-> 0], "free")

SetJoin(dest, src) ==
  /\ instance \in {"Set", "AllocatedInt"} /\ ~fault
  /\ SetStep(set_join(SetMem, dest, src), "join")

\* ============================================================ Map.h
\* The memory the Map functions work on.
MapMem == [heap |-> mheap, map |-> map, fault |-> fault, calls |-> << >>]

\* cmp_int of the tests: (*a < *b) ? -1 : ((*a > *b) ? 1 : 0).
cmp_int(a, b) == IF a < b THEN -1 ELSE IF a > b THEN 1 ELSE 0

\* The block malloc hands to map_node_new, named after the key it is for.
map_malloc(m, key) ==
  CHOOSE a \in MapAddrs : a \notin DOMAIN m.heap /\ a = key

\* Mutant of map_node_new: the new node is coloured BLACK.
map_node_new_black(m, key, value) ==
  LET node == map_malloc(m, key)
  IN [m |-> [m EXCEPT !.heap = [a \in DOMAIN m.heap \cup {node} |->
                 IF a = node
                 THEN [key |-> key, value |-> value, left |-> NULL, right |-> NULL,
                       parent |-> NULL, color |-> MAP_BLACK]
                 ELSE m.heap[a]]],
      node |-> node]

map_node_new(m, key, value) ==
  LET node == map_malloc(m, key)
  IN [m |-> [m EXCEPT !.heap = [a \in DOMAIN m.heap \cup {node} |->
                 IF a = node
                 THEN [key |-> key, value |-> value, left |-> NULL, right |-> NULL,
                       parent |-> NULL, color |-> MAP_RED]
                 ELSE m.heap[a]]],
      node |-> node]

map_free_node(m, node) ==
  [m EXCEPT !.heap = [a \in DOMAIN m.heap \ {node} |-> m.heap[a]]]

map_rotate_left(m, x) ==
  IF x = NULL \/ m.heap[x].right = NULL THEN [m EXCEPT !.fault = TRUE] ELSE
  LET m0 == Step(m, "rotate_left", x, m.heap[x].parent, m.heap[x].right)
      y  == m.heap[x].right
      h1 == [m.heap EXCEPT ![x].right = m.heap[y].left]
      h2 == IF h1[y].left # NULL THEN [h1 EXCEPT ![h1[y].left].parent = x] ELSE h1
      h3 == [h2 EXCEPT ![y].parent = h2[x].parent]
      xp == h3[x].parent
      m4 == IF xp = NULL
            THEN [m0 EXCEPT !.heap = h3, !.map.root = y]
            ELSE IF x = h3[xp].left
                 THEN [m0 EXCEPT !.heap = [h3 EXCEPT ![xp].left = y]]
                 ELSE [m0 EXCEPT !.heap = [h3 EXCEPT ![xp].right = y]]
  IN [m4 EXCEPT !.heap = [m4.heap EXCEPT ![y].left = x, ![x].parent = y]]

map_rotate_right(m, y) ==
  IF y = NULL \/ m.heap[y].left = NULL THEN [m EXCEPT !.fault = TRUE] ELSE
  LET m0 == Step(m, "rotate_right", y, m.heap[y].parent, m.heap[y].left)
      x  == m.heap[y].left
      h1 == [m.heap EXCEPT ![y].left = m.heap[x].right]
      h2 == IF h1[x].right # NULL THEN [h1 EXCEPT ![h1[x].right].parent = y] ELSE h1
      h3 == [h2 EXCEPT ![x].parent = h2[y].parent]
      yp == h3[y].parent
      m4 == IF yp = NULL
            THEN [m0 EXCEPT !.heap = h3, !.map.root = x]
            ELSE IF y = h3[yp].left
                 THEN [m0 EXCEPT !.heap = [h3 EXCEPT ![yp].left = x]]
                 ELSE [m0 EXCEPT !.heap = [h3 EXCEPT ![yp].right = x]]
  IN [m4 EXCEPT !.heap = [m4.heap EXCEPT ![x].right = y, ![y].parent = x]]

RECURSIVE map_insert_fixup(_, _)

\* The tail of the uncle-black case for z->parent a left child: the parent
\* turns black, the grandparent red and is rotated right; the loop goes on.
map_insert_fixup_left_outer(m, z) ==
  LET p == m.heap[z].parent
      g == m.heap[p].parent
  IN map_insert_fixup(map_rotate_right([m EXCEPT !.heap[p].color = MAP_BLACK,
                                         !.heap[g].color = MAP_RED], g),
                  z)

\* The mirror image, for z->parent a right child.
map_insert_fixup_right_outer(m, z) ==
  LET p == m.heap[z].parent
      g == m.heap[p].parent
  IN map_insert_fixup(map_rotate_left([m EXCEPT !.heap[p].color = MAP_BLACK,
                                        !.heap[g].color = MAP_RED], g),
                  z)

map_insert_fixup(m, z) ==
  LET h  == m.heap
      zp == h[z].parent
  IN
  IF m.fault THEN m
  ELSE IF zp # NULL /\ h[zp].color = MAP_RED
  THEN
    LET zpp == h[zp].parent IN
    IF zpp = NULL THEN [m EXCEPT !.fault = TRUE]
    ELSE IF zp = h[zpp].left
    THEN
      LET y == h[zpp].right IN
      IF y # NULL /\ h[y].color = MAP_RED
      THEN map_insert_fixup([Step(m, "red_uncle", z, zp, y) EXCEPT !.heap[zp].color = MAP_BLACK,
                                  !.heap[y].color = MAP_BLACK,
                                  !.heap[zpp].color = MAP_RED],
                        zpp)
      ELSE IF z = h[zp].right
      THEN map_insert_fixup_left_outer(map_rotate_left(Step(m, "black_uncle", z, zp, y), zp),
                                     zp)
      ELSE map_insert_fixup_left_outer(Step(m, "black_uncle", z, zp, y), z)
    ELSE
      LET y == h[zpp].left IN
      IF y # NULL /\ h[y].color = MAP_RED
      THEN map_insert_fixup([Step(m, "red_uncle", z, zp, y) EXCEPT !.heap[zp].color = MAP_BLACK,
                                  !.heap[y].color = MAP_BLACK,
                                  !.heap[zpp].color = MAP_RED],
                        zpp)
      ELSE IF z = h[zp].left
      THEN map_insert_fixup_right_outer(map_rotate_right(Step(m, "black_uncle", z, zp, y), zp),
                                     zp)
      ELSE map_insert_fixup_right_outer(Step(m, "black_uncle", z, zp, y), z)
  ELSE [m EXCEPT !.heap[m.map.root].color = MAP_BLACK]

map_transplant(m, u, v) ==
  LET up == m.heap[u].parent
      m1 == IF up = NULL
            THEN [m EXCEPT !.map.root = v]
            ELSE IF u = m.heap[up].left
                 THEN [m EXCEPT !.heap = [m.heap EXCEPT ![up].left = v]]
                 ELSE [m EXCEPT !.heap = [m.heap EXCEPT ![up].right = v]]
  IN IF v # NULL
     THEN [m1 EXCEPT !.heap = [m1.heap EXCEPT ![v].parent = m1.heap[u].parent]]
     ELSE m1

RECURSIVE map_remove_fixup(_, _, _)

\* x = map->root, the last statement of case 4; the loop is entered again.
map_remove_fixup_restart(m, x_parent) ==
  map_remove_fixup(m, m.map.root, x_parent)

\* Case 4 for x a left child: w takes the colour of x_parent, x_parent and
\* w->right turn black, x_parent is rotated left.
map_remove_fixup_left_case4(m, x, x_parent, w) ==
  LET c1 == IF w # NULL
            THEN IF x_parent = NULL THEN [m EXCEPT !.fault = TRUE]
                 ELSE [m EXCEPT !.heap[w].color = m.heap[x_parent].color]
            ELSE m
      c2 == IF x_parent # NULL THEN [c1 EXCEPT !.heap[x_parent].color = MAP_BLACK] ELSE c1
      c3 == IF w # NULL /\ c2.heap[w].right # NULL
            THEN [c2 EXCEPT !.heap[c2.heap[w].right].color = MAP_BLACK]
            ELSE c2
  IN map_remove_fixup_restart(map_rotate_left(Step(c3, "far_nephew_red", x, x_parent, w),
                                      x_parent),
                          x_parent)

\* Case 3 for x a left child: w->left turns black, w red, w is rotated right.
map_remove_fixup_left_case3(m, x, x_parent, w) ==
  LET wl == m.heap[w].left
      c1 == IF wl # NULL THEN [m EXCEPT !.heap[wl].color = MAP_BLACK] ELSE m
  IN map_rotate_right(Step([c1 EXCEPT !.heap[w].color = MAP_RED],
                       "near_nephew_red", x, x_parent, w),
                  w)

\* Cases 2, 3 and 4 for x a left child, w being the sibling after case 1.
map_remove_fixup_left_sibling(m, x, x_parent, w) ==
  IF w = NULL THEN [m EXCEPT !.fault = TRUE]
  ELSE
    LET wl == m.heap[w].left
        wr == m.heap[w].right
        far_black == (wr = NULL \/ m.heap[wr].color = MAP_BLACK)
        up == IF x_parent # NULL THEN m.heap[x_parent].parent ELSE NULL
    IN
    IF (wl = NULL \/ m.heap[wl].color = MAP_BLACK) /\ far_black
    THEN map_remove_fixup(Step([m EXCEPT !.heap[w].color = MAP_RED],
                           "black_nephews", x_parent, up, w),
                      x_parent, up)
    ELSE IF far_black
    THEN map_remove_fixup_left_case4(
           map_remove_fixup_left_case3(m, x, x_parent, w), x, x_parent,
           IF x_parent # NULL
           THEN map_remove_fixup_left_case3(m, x, x_parent, w).heap[x_parent].right
           ELSE NULL)
    ELSE map_remove_fixup_left_case4(m, x, x_parent, w)

\* Case 1 for x a left child: a red sibling turns black, x_parent red and is
\* rotated left; w = x_parent->right is the sibling from then on.
map_remove_fixup_left_case1(m, x, x_parent, w) ==
  LET sibling(r) == Step(r, "red_sibling", x, x_parent, r.heap[x_parent].right)
  IN sibling(map_rotate_left([m EXCEPT !.heap[w].color = MAP_BLACK,
                                   !.heap[x_parent].color = MAP_RED],
                         x_parent))

\* The mirror image of the four cases, for x a right child.
map_remove_fixup_right_case4(m, x, x_parent, w) ==
  LET c1 == IF w # NULL
            THEN IF x_parent = NULL THEN [m EXCEPT !.fault = TRUE]
                 ELSE [m EXCEPT !.heap[w].color = m.heap[x_parent].color]
            ELSE m
      c2 == IF x_parent # NULL THEN [c1 EXCEPT !.heap[x_parent].color = MAP_BLACK] ELSE c1
      c3 == IF w # NULL /\ c2.heap[w].left # NULL
            THEN [c2 EXCEPT !.heap[c2.heap[w].left].color = MAP_BLACK]
            ELSE c2
  IN map_remove_fixup_restart(map_rotate_right(Step(c3, "far_nephew_red", x, x_parent, w),
                                       x_parent),
                          x_parent)

map_remove_fixup_right_case3(m, x, x_parent, w) ==
  LET wr == m.heap[w].right
      c1 == IF wr # NULL THEN [m EXCEPT !.heap[wr].color = MAP_BLACK] ELSE m
  IN map_rotate_left(Step([c1 EXCEPT !.heap[w].color = MAP_RED],
                      "near_nephew_red", x, x_parent, w),
                 w)

map_remove_fixup_right_sibling(m, x, x_parent, w) ==
  IF w = NULL THEN [m EXCEPT !.fault = TRUE]
  ELSE
    LET wl == m.heap[w].left
        wr == m.heap[w].right
        far_black == (wl = NULL \/ m.heap[wl].color = MAP_BLACK)
        up == IF x_parent # NULL THEN m.heap[x_parent].parent ELSE NULL
    IN
    IF (wr = NULL \/ m.heap[wr].color = MAP_BLACK) /\ far_black
    THEN map_remove_fixup(Step([m EXCEPT !.heap[w].color = MAP_RED],
                           "black_nephews", x_parent, up, w),
                      x_parent, up)
    ELSE IF far_black
    THEN map_remove_fixup_right_case4(
           map_remove_fixup_right_case3(m, x, x_parent, w), x, x_parent,
           IF x_parent # NULL
           THEN map_remove_fixup_right_case3(m, x, x_parent, w).heap[x_parent].left
           ELSE NULL)
    ELSE map_remove_fixup_right_case4(m, x, x_parent, w)

map_remove_fixup_right_case1(m, x, x_parent, w) ==
  LET sibling(r) == Step(r, "red_sibling", x, x_parent, r.heap[x_parent].left)
  IN sibling(map_rotate_right([m EXCEPT !.heap[w].color = MAP_BLACK,
                                    !.heap[x_parent].color = MAP_RED],
                          x_parent))

\* One pass of the loop body for x a left child, w = x_parent->right.
map_remove_fixup_left(m, x, x_parent, w) ==
  IF w # NULL /\ m.heap[w].color = MAP_RED
  THEN map_remove_fixup_left_sibling(
         map_remove_fixup_left_case1(m, x, x_parent, w), x, x_parent,
         map_remove_fixup_left_case1(m, x, x_parent, w).heap[x_parent].right)
  ELSE map_remove_fixup_left_sibling(m, x, x_parent, w)

\* One pass of the loop body for x a right child, w = x_parent->left.
map_remove_fixup_right(m, x, x_parent, w) ==
  IF w # NULL /\ m.heap[w].color = MAP_RED
  THEN map_remove_fixup_right_sibling(
         map_remove_fixup_right_case1(m, x, x_parent, w), x, x_parent,
         map_remove_fixup_right_case1(m, x, x_parent, w).heap[x_parent].left)
  ELSE map_remove_fixup_right_sibling(m, x, x_parent, w)

map_remove_fixup(m, x, x_parent) ==
  IF m.fault THEN m
  ELSE IF x # m.map.root /\ (x = NULL \/ m.heap[x].color = MAP_BLACK)
  THEN
    IF x = (IF x_parent # NULL THEN m.heap[x_parent].left ELSE NULL)
    THEN map_remove_fixup_left(
           Step(m, "body", x, x_parent,
                IF x_parent # NULL THEN m.heap[x_parent].right ELSE NULL),
           x, x_parent, IF x_parent # NULL THEN m.heap[x_parent].right ELSE NULL)
    ELSE map_remove_fixup_right(
           Step(m, "body", x, x_parent,
                IF x_parent # NULL THEN m.heap[x_parent].left ELSE NULL),
           x, x_parent, IF x_parent # NULL THEN m.heap[x_parent].left ELSE NULL)
  ELSE IF x # NULL
       THEN [m EXCEPT !.heap[x].color = MAP_BLACK]
       ELSE m

\* The descent loop of map_insert: the node the new one hangs under, or the
\* node x that already holds the key.
RECURSIVE map_insert_loop(_, _, _, _)
map_insert_loop(m, key, y, x) ==
  IF x = NULL THEN [dup |-> FALSE, y |-> y, x |-> x]
  ELSE LET cmp == cmp_int(key, m.heap[x].key) IN
       IF cmp = 0 THEN [dup |-> TRUE, y |-> y, x |-> x]
       ELSE map_insert_loop(m, key, x,
                            IF cmp < 0 THEN m.heap[x].left ELSE m.heap[x].right)

\* map_insert after the allocation: the node n.node is linked under y, the
\* fix-up runs and size is incremented.
map_insert_link(n, y) ==
  LET z  == n.node
      m1 == [n.m EXCEPT !.heap[z].parent = y]
      m2 == IF y = NULL
            THEN [m1 EXCEPT !.map.root = z]
            ELSE IF cmp_int(n.m.heap[z].key, n.m.heap[y].key) < 0
                 THEN [m1 EXCEPT !.heap[y].left = z]
                 ELSE [m1 EXCEPT !.heap[y].right = z]
  IN [map_insert_fixup(m2, z) EXCEPT !.map.size = @ + 1]

\* Mutant of map_insert: an existing key keeps its old value.
map_insert_no_update(m, key, value) ==
  LET d == map_insert_loop(m, key, NULL, m.map.root) IN
  IF d.dup THEN [m |-> m, ret |-> FALSE]
  ELSE [m |-> map_insert_link(map_node_new(m, key, value), d.y), ret |-> TRUE]

\* Mutant of map_insert: an overwrite is counted as a new element.
map_insert_counts_duplicate(m, key, value) ==
  LET d == map_insert_loop(m, key, NULL, m.map.root) IN
  IF d.dup
  THEN [m |-> [m EXCEPT !.heap[d.x].value = value, !.map.size = @ + 1], ret |-> FALSE]
  ELSE [m |-> map_insert_link(map_node_new(m, key, value), d.y), ret |-> TRUE]

map_insert(m, key, value) ==
  LET d == map_insert_loop(m, key, NULL, m.map.root) IN
  IF d.dup
  THEN [m |-> [m EXCEPT !.heap[d.x].value = value], ret |-> FALSE]
  ELSE [m |-> map_insert_link(map_node_new(m, key, value), d.y), ret |-> TRUE]

RECURSIVE map_find_node(_, _, _)
map_find_node(m, node, key) ==
  IF node = NULL THEN NULL
  ELSE LET cmp == cmp_int(key, m.heap[node].key) IN
       IF cmp = 0 THEN node
       ELSE IF cmp < 0 THEN map_find_node(m, m.heap[node].left, key)
       ELSE map_find_node(m, m.heap[node].right, key)

map_contains(m, key) == map_find_node(m, m.map.root, key) # NULL

\* &node->value is named by the address of its node; NULL when the key is absent.
map_get(m, key) == map_find_node(m, m.map.root, key)

\* Mutant of map_find_min_node: the right child is taken for the successor.
map_find_min_node_no_descent(m, node) == node

RECURSIVE map_find_min_node(_, _)
map_find_min_node(m, node) ==
  IF node # NULL /\ m.heap[node].left # NULL
  THEN map_find_min_node(m, m.heap[node].left)
  ELSE node

\* The search loop of map_remove: the node holding value, or NULL.
RECURSIVE map_remove_loop(_, _, _)
map_remove_loop(m, key, z) ==
  IF z = NULL THEN NULL
  ELSE LET cmp == cmp_int(key, m.heap[z].key) IN
       IF cmp = 0 THEN z
       ELSE IF cmp < 0 THEN map_remove_loop(m, key, m.heap[z].left)
       ELSE map_remove_loop(m, key, m.heap[z].right)

\* Mutant of map_remove: the key and the value of a node with two children
\* are exchanged with those of its successor before the splice.
map_remove_splice_swaps_payload(m0, z) ==
  LET y0 == map_find_min_node(m0, m0.heap[z].right)
      m  == IF m0.heap[z].left # NULL /\ m0.heap[z].right # NULL
            THEN [m0 EXCEPT !.heap[z].key = m0.heap[y0].key,
                            !.heap[z].value = m0.heap[y0].value,
                            !.heap[y0].key = m0.heap[z].key,
                            !.heap[y0].value = m0.heap[z].value]
            ELSE m0
      h  == m.heap
  IN
  IF h[z].left = NULL
  THEN [m |-> map_transplant(m, z, h[z].right), x |-> h[z].right,
        x_parent |-> h[z].parent, y |-> z, y_original_color |-> h[z].color]
  ELSE IF h[z].right = NULL
  THEN [m |-> map_transplant(m, z, h[z].left), x |-> h[z].left,
        x_parent |-> h[z].parent, y |-> z, y_original_color |-> h[z].color]
  ELSE
    LET y  == map_find_min_node(m, h[z].right)
        x  == h[y].right
        m1 == IF h[y].parent = z
              THEN IF x # NULL THEN [m EXCEPT !.heap = [h EXCEPT ![x].parent = y]] ELSE m
              ELSE LET t  == map_transplant(m, y, h[y].right)
                       t1 == [t EXCEPT !.heap = [t.heap EXCEPT ![y].right = t.heap[z].right]]
                   IN IF t1.heap[y].right # NULL
                      THEN [t1 EXCEPT !.heap = [t1.heap EXCEPT ![t1.heap[y].right].parent = y]]
                      ELSE t1
        xp == IF h[y].parent = z THEN y ELSE m1.heap[y].parent
        m2 == map_transplant(m1, z, y)
        m3 == [m2 EXCEPT !.heap = [m2.heap EXCEPT ![y].left = m2.heap[z].left]]
        m4 == IF m3.heap[y].left # NULL
              THEN [m3 EXCEPT !.heap = [m3.heap EXCEPT ![m3.heap[y].left].parent = y]]
              ELSE m3
        m5 == [m4 EXCEPT !.heap = [m4.heap EXCEPT ![y].color = m4.heap[z].color]]
    IN [m |-> m5, x |-> x, x_parent |-> xp, y |-> y, y_original_color |-> h[y].color]

\* map_remove up to and including the splice: the memory, the fix-up anchor
\* x with its tracked parent, and the colour the spliced-out node had.
map_remove_splice(m, z) ==
  LET h == m.heap IN
  IF h[z].left = NULL
  THEN [m |-> map_transplant(m, z, h[z].right), x |-> h[z].right,
        x_parent |-> h[z].parent, y |-> z, y_original_color |-> h[z].color]
  ELSE IF h[z].right = NULL
  THEN [m |-> map_transplant(m, z, h[z].left), x |-> h[z].left,
        x_parent |-> h[z].parent, y |-> z, y_original_color |-> h[z].color]
  ELSE
    LET y  == map_find_min_node(m, h[z].right)
        x  == h[y].right
        m1 == IF h[y].parent = z
              THEN IF x # NULL THEN [m EXCEPT !.heap = [h EXCEPT ![x].parent = y]] ELSE m
              ELSE LET t  == map_transplant(m, y, h[y].right)
                       t1 == [t EXCEPT !.heap = [t.heap EXCEPT ![y].right = t.heap[z].right]]
                   IN IF t1.heap[y].right # NULL
                      THEN [t1 EXCEPT !.heap = [t1.heap EXCEPT ![t1.heap[y].right].parent = y]]
                      ELSE t1
        xp == IF h[y].parent = z THEN y ELSE m1.heap[y].parent
        m2 == map_transplant(m1, z, y)
        m3 == [m2 EXCEPT !.heap = [m2.heap EXCEPT ![y].left = m2.heap[z].left]]
        m4 == IF m3.heap[y].left # NULL
              THEN [m3 EXCEPT !.heap = [m3.heap EXCEPT ![m3.heap[y].left].parent = y]]
              ELSE m3
        m5 == [m4 EXCEPT !.heap = [m4.heap EXCEPT ![y].color = m4.heap[z].color]]
    IN [m |-> m5, x |-> x, x_parent |-> xp, y |-> y, y_original_color |-> h[y].color]

\* Mutant of map_remove: the remove fix-up is never run.
map_remove_unlink_without_fixup(s, z) ==
  [map_free_node(s.m, z) EXCEPT !.map.size = @ - 1]

\* map_remove after the splice: free(z), map->size--, and the fix-up when the
\* node spliced out was black.
map_remove_unlink(s, z) ==
  LET m2 == [map_free_node(s.m, z) EXCEPT !.map.size = @ - 1]
  IN IF s.y_original_color = MAP_BLACK
     THEN map_remove_fixup(Step(m2, "remove_fixup", s.x, s.x_parent, NULL), s.x, s.x_parent)
     ELSE m2

map_remove(m, key) ==
  LET z == map_remove_loop(m, key, m.map.root) IN
  IF z = NULL THEN [m |-> m, ret |-> FALSE]
  ELSE [m |-> map_remove_unlink(map_remove_splice(m, z), z), ret |-> TRUE]

map_size(m) == m.map.size

map_empty(m) == m.map.size = 0

RECURSIVE map_clear_node(_, _)
map_clear_node(m, node) ==
  IF node = NULL THEN m
  ELSE LET l  == m.heap[node].left
           r  == m.heap[node].right
           m1 == map_clear_node(m, l)
           m2 == map_clear_node(m1, r)
       IN map_free_node(m2, node)

\* Map_##KeyType##_##ValueType map = {0}.
init_map == [root |-> NULL, size |-> 0]

map_clear(m) ==
  LET m1 == map_clear_node(m, m.map.root)
  IN [m1 EXCEPT !.map = [root |-> NULL, size |-> 0]]

free_map(m) == map_clear(m)

\* The visitor fn handed to map_foreach: it notes the key and the value it
\* is shown and the userdata it is passed, in the order of the calls.
fn(m, node, userdata) ==
  [m EXCEPT !.calls = Append(@, [key |-> m.heap[node].key, val |-> m.heap[node].value,
                                 userdata |-> userdata])]

\* Mutant of map_foreach_node: the right subtree is walked before the node.
RECURSIVE map_foreach_node_right_first(_, _, _)
map_foreach_node_right_first(m, node, userdata) ==
  IF node = NULL THEN m
  ELSE LET visit(m1) == fn(map_foreach_node_right_first(m1, m1.heap[node].right, userdata),
                           node, userdata)
       IN visit(map_foreach_node_right_first(m, m.heap[node].left, userdata))

\* map_foreach_node: the in-order walk, fn called on &node->key, &node->value.
RECURSIVE map_foreach_node(_, _, _)
map_foreach_node(m, node, userdata) ==
  IF node = NULL THEN m
  ELSE LET right(m1) == map_foreach_node(fn(m1, node, userdata), m1.heap[node].right, userdata)
       IN right(map_foreach_node(m, m.heap[node].left, userdata))

map_foreach(m, userdata) == map_foreach_node(m, m.map.root, userdata)

\* ------------------------------------------------------------ Map actions
MapStep(r, name) ==
  /\ mheap' = r.m.heap
  /\ map' = r.m.map
  /\ fault' = r.m.fault
  /\ op' = name
  /\ ret' = r.ret
  /\ UNCHANGED <<instance, heap, sets, cells, destructor_call_count>>

MapInsert(key, value) ==
  /\ instance = "Map" /\ ~fault
  /\ MapStep(map_insert(MapMem, key, value), "insert")

MapRemove(key) ==
  /\ instance = "Map" /\ ~fault
  /\ MapStep(map_remove(MapMem, key), "remove")

MapClear ==
  /\ instance = "Map" /\ ~fault
  /\ MapStep([m |-> map_clear(MapMem), ret |-> 0], "clear")

\* Map_foreach(KeyType, ValueType, map, fn, userdata).
MapForeach(userdata) ==
  /\ instance = "Map" /\ ~fault
  /\ MapStep([m |-> map_foreach(MapMem, userdata), ret |-> 0], "foreach")

\* Map_free(KeyType, ValueType, map): free_map on an initialised map.
MapFree ==
  /\ instance = "Map" /\ ~fault
  /\ MapStep([m |-> free_map(MapMem), ret |-> 0], "free")


\* ========================================================== specifications
InitCommon ==
  /\ heap = << >>
  /\ sets = [s \in SetRefs |-> [root |-> NULL, size |-> 0]]
  /\ cells = << >>
  /\ destructor_call_count = 0
  /\ mheap = << >>
  /\ map = [root |-> NULL, size |-> 0]
  /\ fault = FALSE
  /\ op = "init"
  /\ ret = 0

\* Spec: one container exercised alone, a Set (the first Set object) or a Map.
TheSet == CHOOSE s \in SetRefs : \A t \in SetRefs : s <= t

Init == instance \in {"Set", "Map"} /\ InitCommon

Next ==
  \/ \E value \in Keys : SetInsert(TheSet, value)
  \/ \E value \in Keys : SetRemove(TheSet, value)
  \/ SetClear(TheSet)
  \/ SetFree(TheSet)
  \/ \E key \in MapKeys, value \in Values : MapInsert(key, value)
  \/ \E key \in MapKeys : MapRemove(key)
  \/ MapClear
  \/ MapFree
  \/ \E userdata \in UserData : MapForeach(userdata)

Spec == Init /\ [][Next]_vars

\* SpecJoin: two Sets of one type, Set(int) or Set(AllocatedInt), and join
\* between any two Set references, NULL included.
InitJoin == instance \in {"Set", "AllocatedInt"} /\ InitCommon

NextJoin ==
  \/ \E set \in SetRefs, value \in JoinKeys : SetInsert(set, value)
  \/ \E set \in SetRefs, value \in JoinKeys : SetRemove(set, value)
  \/ \E set \in SetRefs : SetClear(set)
  \/ \E set \in SetRefs : SetFree(set)
  \/ \E dest \in SetRefs \cup {NULL}, src \in SetRefs \cup {NULL} : SetJoin(dest, src)

SpecJoin == InitJoin /\ [][NextJoin]_vars

\* SpecSteps: one container exercised alone as in Spec, with keys 1..MaxStepKey
\* and one Map value, for the properties of the steps inside one call: the
\* fix-up loops take every case, several iterations included, only on trees of
\* ten nodes.
StepValue == CHOOSE value \in Values : \A v \in Values : value <= v

NextSteps ==
  \/ \E value \in StepKeys : SetInsert(TheSet, value)
  \/ \E value \in StepKeys : SetRemove(TheSet, value)
  \/ SetClear(TheSet)
  \/ \E key \in StepKeys : MapInsert(key, StepValue)
  \/ \E key \in StepKeys : MapRemove(key)
  \/ MapClear

SpecSteps == Init /\ [][NextSteps]_vars

\* SpecLinks: two Sets of Set(int) with join between them, or a Map with one
\* value, over keys 1..MaxLinkKey.
NextLinks ==
  \/ \E set \in SetRefs, value \in LinkKeys : SetInsert(set, value)
  \/ \E set \in SetRefs, value \in LinkKeys : SetRemove(set, value)
  \/ \E set \in SetRefs : SetClear(set)
  \/ \E dest \in SetRefs, src \in SetRefs : SetJoin(dest, src)
  \/ \E key \in LinkKeys : MapInsert(key, StepValue)
  \/ \E key \in LinkKeys : MapRemove(key)
  \/ MapClear

SpecLinks == Init /\ [][NextLinks]_vars

\* SpecPair: a Set(int) and a Map(int, int) given one and the same sequence
\* of inserts and removes of keys 1..MaxPairKey; ret holds what the two calls
\* returned.  The value that goes with a key is fixed by the key.
PairValue(key) == (key % MaxVal) + 1

PairStep(s, r, name) ==
  /\ heap' = s.m.heap
  /\ sets' = s.m.sets
  /\ mheap' = r.m.heap
  /\ map' = r.m.map
  /\ fault' = (s.m.fault \/ r.m.fault)
  /\ op' = name
  /\ ret' = [set |-> s.ret, map |-> r.ret]
  /\ UNCHANGED <<instance, cells, destructor_call_count>>

PairInsert(key) ==
  /\ instance = "Pair" /\ ~fault
  /\ PairStep(set_insert(SetMem, TheSet, key), map_insert(MapMem, key, PairValue(key)), "insert")

PairRemove(key) ==
  /\ instance = "Pair" /\ ~fault
  /\ PairStep(set_remove(SetMem, TheSet, key), map_remove(MapMem, key), "remove")

InitPair == instance = "Pair" /\ InitCommon

NextPair ==
  \/ \E key \in PairKeys : PairInsert(key)
  \/ \E key \in PairKeys : PairRemove(key)

SpecPair == InitPair /\ [][NextPair]_vars

\* ================================================================ claims
\* Nodes reachable from node n over child links (a fixpoint: it ends on any heap).
RECURSIVE Close(_, _)
Close(h, S) ==
  LET T == S \cup {c \in {h[n].left : n \in S} \cup {h[n].right : n \in S} : c # NULL}
  IN IF T = S THEN S ELSE Close(h, T)

Sub(h, n) == IF n = NULL THEN {} ELSE Close(h, {n})

\* Nodes and keys of a Set or of the Map in memory m; without m, in the current state.
SetNodesIn(m, set) == Sub(m.heap, m.sets[set].root)
SetStoredIn(m, set) == {ElementKey(m, m.heap[n].value) : n \in SetNodesIn(m, set)}
MapNodesIn(m) == Sub(m.heap, m.map.root)
MapStoredIn(m) == {m.heap[n].key : n \in MapNodesIn(m)}
SetNodes(set) == SetNodesIn(SetMem, set)
SetStored(set) == SetStoredIn(SetMem, set)
MapNodes == MapNodesIn(MapMem)
MapStored == MapStoredIn(MapMem)

\* Number of black nodes on every path from n down to a null child, or -1
\* when two such paths differ (fuel bounds the depth of the walk).
RECURSIVE BlackHeight(_, _, _, _)
BlackHeight(h, black, n, fuel) ==
  IF n = NULL THEN 0
  ELSE IF fuel = 0 THEN -1
  ELSE LET l == BlackHeight(h, black, h[n].left, fuel - 1)
           r == BlackHeight(h, black, h[n].right, fuel - 1)
       IN IF l < 0 \/ r < 0 \/ l # r THEN -1
          ELSE l + (IF h[n].color = black THEN 1 ELSE 0)

SetBlackHeight(m, set) ==
  BlackHeight(m.heap, SET_BLACK, m.sets[set].root, Cardinality(DOMAIN m.heap))
MapBlackHeight(m) ==
  BlackHeight(m.heap, MAP_BLACK, m.map.root, Cardinality(DOMAIN m.heap))

RootBlack(h, root, black) == root = NULL \/ h[root].color = black

NoRedRed(h, root, red) ==
  \A n \in Sub(h, root) :
    h[n].color = red =>
      /\ h[n].left # NULL => h[h[n].left].color # red
      /\ h[n].right # NULL => h[h[n].right].color # red

SetRootBlackNoRedRed(m, set) ==
  RootBlack(m.heap, m.sets[set].root, SET_BLACK) /\ NoRedRed(m.heap, m.sets[set].root, SET_RED)
MapRootBlackNoRedRed(m) ==
  RootBlack(m.heap, m.map.root, MAP_BLACK) /\ NoRedRed(m.heap, m.map.root, MAP_RED)

StrictlyAscending(seq) == \A i \in 1..(Len(seq) - 1) : seq[i] < seq[i + 1]

Range(seq) == {seq[i] : i \in 1..Len(seq)}

SetIsBst(m, set) ==
  \A n \in SetNodesIn(m, set) :
    /\ \A l \in Sub(m.heap, m.heap[n].left) :
         CompareFunc(m, m.heap[l].value, m.heap[n].value) < 0
    /\ \A r \in Sub(m.heap, m.heap[n].right) :
         CompareFunc(m, m.heap[r].value, m.heap[n].value) > 0

MapIsBst(m) ==
  \A n \in MapNodesIn(m) :
    /\ \A l \in Sub(m.heap, m.heap[n].left) : cmp_int(m.heap[l].key, m.heap[n].key) < 0
    /\ \A r \in Sub(m.heap, m.heap[n].right) : cmp_int(m.heap[r].key, m.heap[n].key) > 0

\* The keys for_each shows its visitor, in the order of the calls.
MapForeachKeys(m) == LET v == map_foreach(m, NULL).calls IN [i \in 1..Len(v) |-> v[i].key]

SetSearchTreeOrder(m, set) ==
  LET elems == set_to_str_node(m, m.sets[set].root)
      walk  == [i \in 1..Len(elems) |-> ElementKey(m, elems[i])]
  IN SetIsBst(m, set) /\ StrictlyAscending(walk) /\ Range(walk) = SetStoredIn(m, set)

MapSearchTreeOrder(m) ==
  LET walk == MapForeachKeys(m)
  IN MapIsBst(m) /\ StrictlyAscending(walk) /\ Range(walk) = MapStoredIn(m)

\* C3: the tree is a binary search tree without equal keys, so the in-order
\* walk of to_str and for_each yields the stored keys in strictly ascending order.
C3_SearchTreeOrder ==
  /\ instance = "Set" => \A set \in SetRefs : SetSearchTreeOrder(SetMem, set)
  /\ instance = "Map" => MapSearchTreeOrder(MapMem)

\* A remove has just run and the walk still lists four or more keys.
C3_Witness ==
  /\ op = "remove" /\ ret = TRUE
  /\ \/ instance = "Set" /\ Len(set_to_str_node(SetMem, sets[TheSet].root)) >= 4
     \/ instance = "Map" /\ Len(MapForeachKeys(MapMem)) >= 4

SetSizeCountsNodes(m, set) ==
  /\ m.sets[set].size = Cardinality(SetNodesIn(m, set))
  /\ (m.sets[set].size = 0) = (m.sets[set].root = NULL)

MapSizeCountsNodes(m) ==
  /\ m.map.size = Cardinality(MapNodesIn(m))
  /\ (m.map.size = 0) = (m.map.root = NULL)

\* C4: size is the number of nodes reachable from root (0 exactly when root is
\* absent); from any reachable state a new key's insert adds 1 and returns
\* true, an existing key's insert leaves size alone and returns false, a remove
\* that returns true subtracts 1, one that returns false leaves size alone,
\* and clear sets it to 0.
C4_SizeAccounting ==
  /\ instance = "Set" => \A set \in SetRefs :
       LET stored == SetStored(set) IN
       /\ SetSizeCountsNodes(SetMem, set)
       /\ set_clear(SetMem, set).sets[set].size = 0
       /\ \A value \in Keys :
            LET i == set_insert(SetMem, set, value)
                r == set_remove(SetMem, set, value)
            IN /\ IF value \in stored
                  THEN i.m.sets[set].size = sets[set].size /\ i.ret = FALSE
                  ELSE i.m.sets[set].size = sets[set].size + 1 /\ i.ret = TRUE
               /\ IF r.ret
                  THEN r.m.sets[set].size = sets[set].size - 1
                  ELSE r.m.sets[set].size = sets[set].size
               /\ SetSizeCountsNodes(i.m, set) /\ SetSizeCountsNodes(r.m, set)
  /\ instance = "Map" =>
       /\ MapSizeCountsNodes(MapMem)
       /\ map_clear(MapMem).map.size = 0
       /\ \A key \in MapKeys :
            LET r == map_remove(MapMem, key)
                bound == key \in MapStored
            IN /\ IF r.ret THEN r.m.map.size = map.size - 1 ELSE r.m.map.size = map.size
               /\ MapSizeCountsNodes(r.m)
               /\ \A value \in Values :
                    LET i == map_insert(MapMem, key, value)
                    IN /\ IF bound
                          THEN i.m.map.size = map.size /\ i.ret = FALSE
                          ELSE i.m.map.size = map.size + 1 /\ i.ret = TRUE
                       /\ MapSizeCountsNodes(i.m)

\* An insert of an existing key has just been rejected on a tree of three or more.
C4_Witness ==
  /\ op = "insert" /\ ret = FALSE
  /\ \/ instance = "Set" /\ sets[TheSet].size >= 3 /\ Cardinality(SetNodes(TheSet)) >= 3
     \/ instance = "Map" /\ map.size >= 3 /\ Cardinality(MapNodes) >= 3

\* What contains reports in memory m, as a set: the abstraction the Set is read through.
SetAbs(m, set) == {k \in Keys : set_contains(m, set, k)}

\* C5: the Set refines a mathematical set: it starts empty and, from any
\* reachable state, insert(k) adds k and returns true exactly when k was not a
\* member, remove(k) deletes k and returns true exactly when k was a member,
\* clear empties it; membership is what contains reports.
C5_SetRefinesSet ==
  instance = "Set" => \A set \in SetRefs :
    LET abs == SetAbs(SetMem, set) IN
    /\ op = "init" => abs = {}
    /\ SetAbs(set_clear(SetMem, set), set) = {}
    /\ \A value \in Keys :
         LET i == set_insert(SetMem, set, value)
             r == set_remove(SetMem, set, value)
         IN /\ SetAbs(i.m, set) = abs \cup {value}
            /\ i.ret = (value \notin abs)
            /\ SetAbs(r.m, set) = abs \ {value}
            /\ r.ret = (value \in abs)

\* A remove has just failed on a Set whose contains reports four members.
C5_Witness ==
  /\ instance = "Set" /\ op = "remove" /\ ret = FALSE
  /\ Cardinality(SetAbs(SetMem, TheSet)) >= 4

\* What get reports in memory m, as a function: key -> the value its
\* reference denotes, NULL for a key get has no reference for.
MapAbs(m) ==
  [k \in MapKeys |-> LET ref == map_get(m, k)
                     IN IF ref = NULL THEN NULL ELSE m.heap[ref].value]

\* C6: the Map refines a key-to-value function: it starts empty and, from any
\* reachable state, insert(k, v) binds k to v, remove(k) unbinds k and clear
\* unbinds every key, where get(k) denotes the value k is bound to and is NULL,
\* without a fault, when k is unbound; contains_key(k) holds exactly when
\* get(k) is not NULL.
C6_MapRefinesFunction ==
  instance = "Map" =>
    LET abs   == MapAbs(MapMem)
        empty == [k \in MapKeys |-> NULL]
    IN
    /\ op = "init" => abs = empty
    /\ ~fault
    /\ \A key \in MapKeys : map_contains(MapMem, key) = (map_get(MapMem, key) # NULL)
    /\ MapAbs(map_clear(MapMem)) = empty
    /\ \A key \in MapKeys :
         LET r == map_remove(MapMem, key) IN
         /\ MapAbs(r.m) = [abs EXCEPT ![key] = NULL]
         /\ ~r.m.fault
         /\ \A value \in Values :
              LET i == map_insert(MapMem, key, value) IN
              /\ MapAbs(i.m) = [abs EXCEPT ![key] = value]
              /\ ~i.m.fault

\* get reports two different values and misses a key, right after an overwrite.
C6_Witness ==
  /\ instance = "Map" /\ op = "insert" /\ ret = FALSE
  /\ \E j, k \in MapKeys :
       /\ MapAbs(MapMem)[j] # NULL /\ MapAbs(MapMem)[k] # NULL
       /\ MapAbs(MapMem)[j] # MapAbs(MapMem)[k]
  /\ \E k \in MapKeys : map_get(MapMem, k) = NULL

\* C7: insert of a key equal to a stored one returns false and keeps shape,
\* colours, keys and size; the Set changes nothing, the Map only overwrites the
\* value of the node holding the key with the supplied value.
C7_DuplicateInsertFrame ==
  /\ instance = "Set" => \A set \in SetRefs : \A value \in SetStored(set) :
       set_insert(SetMem, set, value) = [m |-> SetMem, ret |-> FALSE]
  /\ instance = "Map" => \A key \in MapStored, value \in Values :
       LET i == map_insert(MapMem, key, value)
       IN /\ i.ret = FALSE
          /\ i.m.map = map
          /\ i.m.fault = fault
          /\ \E n \in MapNodes :
               mheap[n].key = key /\ i.m.heap = [mheap EXCEPT ![n].value = value]

\* A Map insert has just been answered false and the map holds both values.
C7_Witness ==
  /\ instance = "Map" /\ op = "insert" /\ ret = FALSE
  /\ map.size >= 3
  /\ \E n, k \in MapNodes : mheap[n].value # mheap[k].value

\* C8: remove of a key that is not stored, on an empty tree too, returns false
\* and changes neither root, shape, colours, keys, values nor size.
C8_FailedRemoveFrame ==
  /\ instance = "Set" => \A set \in SetRefs : \A value \in Keys \ SetStored(set) :
       set_remove(SetMem, set, value) = [m |-> SetMem, ret |-> FALSE]
  /\ instance = "Map" => \A key \in MapKeys \ MapStored :
       map_remove(MapMem, key) = [m |-> MapMem, ret |-> FALSE]

\* A remove has just been answered false on a tree of three or more.
C8_Witness ==
  /\ op = "remove" /\ ret = FALSE
  /\ \/ instance = "Set" /\ sets[TheSet].size >= 3
     \/ instance = "Map" /\ map.size >= 3

JoinCounts(dest, src) ==
  LET K == Cardinality(SetStored(src))
      M == Cardinality(SetStored(src) \cap SetStored(dest))
      j == set_join(SetMem, dest, src)
  IN /\ j.ret = K - M
     /\ j.m.sets[dest].size = sets[dest].size + (K - M)
     /\ j.m.sets[src] = [root |-> NULL, size |-> 0]

\* The red-black and ordering invariants of one Set in memory m.
SetWellFormed(m, set) ==
  /\ ~m.fault
  /\ SetRootBlackNoRedRed(m, set)
  /\ SetBlackHeight(m, set) >= 0
  /\ SetSearchTreeOrder(m, set)
  /\ SetSizeCountsNodes(m, set)

\* C10 as stated: for any destination and source Set.
C10_JoinCountsAnySets == \A dest \in SetRefs, src \in SetRefs : JoinCounts(dest, src)

\* C10, amended: for two distinct Sets dest and src, join(dest, src) returns
\* K - M, leaves dest with its size plus K - M and leaves src empty.
C10_JoinCountsDistinctSets ==
  \A dest \in SetRefs : \A src \in SetRefs \ {dest} : JoinCounts(dest, src)

\* A join has just moved two elements into a destination that was not empty.
C10_Witness ==
  /\ op = "join" /\ ret = 2
  /\ \E dest \in SetRefs : \E src \in SetRefs \ {dest} :
       sets[dest].size >= 3 /\ sets[src].root = NULL /\ sets[src].size = 0

\* C11: after join(dest, src) on two distinct Sets, dest holds exactly the
\* union of what dest and src held, each element once, dest satisfies the
\* red-black and ordering invariants, and a following insert or remove on
\* dest works as on any Set.
C11_JoinIsUnion ==
  \A dest \in SetRefs : \A src \in SetRefs \ {dest} :
    LET union == SetStored(dest) \cup SetStored(src)
        j     == set_join(SetMem, dest, src)
    IN /\ SetStoredIn(j.m, dest) = union
       /\ j.m.sets[dest].size = Cardinality(union)
       /\ SetWellFormed(j.m, dest)
       /\ \A k \in JoinKeys :
            LET e == new_element(j.m, k)
                i == set_insert(e.m, dest, e.value)
                r == set_remove(e.m, dest, e.value)
            IN /\ i.ret = (k \notin union)
               /\ SetStoredIn(i.m, dest) = union \cup {k}
               /\ SetWellFormed(i.m, dest)
               /\ r.ret = (k \in union)
               /\ SetStoredIn(r.m, dest) = union \ {k}
               /\ SetWellFormed(r.m, dest)

\* A join has just returned 1 and left three or more elements in its destination.
C11_Witness ==
  /\ op = "join" /\ ret = 1
  /\ \E dest \in SetRefs : \E src \in SetRefs \ {dest} :
       Cardinality(SetStored(dest)) >= 3 /\ sets[src].root = NULL

\* The int blocks the destructor freed during the call that produced memory m,
\* one entry per call that freed a block.
Disposals(m) ==
  SelectSeq(m.trace, LAMBDA e : e.ev = "dtor" /\ e.cell # NULL)

TimesDisposed(m, p) == Len(SelectSeq(Disposals(m), LAMBDA e : e.cell = p))

\* C12: in join on a Set type with a destructor, the element of a source node
\* whose insert into the destination succeeded is moved: it is not disposed
\* when the source is cleared and the destination holds it; the element of a
\* source node that collided with an element of the destination is disposed
\* exactly once, and the element it collided with is not disposed.
C12_JoinMovesOrDisposes ==
  instance = "AllocatedInt" =>
    \A dest \in SetRefs : \A src \in SetRefs \ {dest} :
      LET j == set_join(SetMem, dest, src)
      IN /\ ~j.m.fault
         /\ \A n \in SetNodes(src) :
              LET p == heap[n].value IN
              IF cells[p] \in SetStored(dest)
              THEN /\ TimesDisposed(j.m, p) = 1
                   /\ p \notin DOMAIN j.m.cells
              ELSE /\ TimesDisposed(j.m, p) = 0
                   /\ p \in DOMAIN j.m.cells
                   /\ \E d \in SetNodesIn(j.m, dest) : j.m.heap[d].value = p
         /\ \A d \in SetNodes(dest) :
              /\ TimesDisposed(j.m, heap[d].value) = 0
              /\ j.m.heap[d].value = heap[d].value
              /\ heap[d].value \in DOMAIN j.m.cells
         /\ j.m.destructor_call_count = Len(Disposals(j.m))

\* A join on Set(AllocatedInt) has just moved an element and disposed of a duplicate.
C12_Witness ==
  /\ instance = "AllocatedInt" /\ op = "join"
  /\ ret >= 1 /\ destructor_call_count >= 1

\* join(dest, src), then free_set(dest), then free_set(src).
JoinThenFreeBoth(m, dest, src) ==
  free_set(free_set(set_join(m, dest, src).m, dest), src)

C14_JoinWithoutSourceOrDest ==
  instance \in {"Set", "AllocatedInt"} =>
    \A dest \in SetRefs \cup {NULL}, src \in SetRefs \cup {NULL} :
      (src = NULL \/ dest = NULL \/ SetStored(src) = {}) =>
        LET j == set_join(SetMem, dest, src)
        IN /\ j.ret = 0
           /\ j.m = SetMem
           /\ \A s \in SetRefs : SetStoredIn(j.m, s) = SetStored(s)

\* A join has returned 0 and both sets still hold elements: one of its two
\* arguments was NULL, since a join on two sets empties its source.
C14_Witness ==
  /\ op = "join" /\ ret = 0
  /\ \A s \in SetRefs : Cardinality(SetStored(s)) >= 2

\* Memory m without the record of the calls that led to it.
Memory(m) == [m EXCEPT !.trace = << >>]

\* The memory in which set is freshly initialised and its nodes never existed.
FreshSet(m, set) ==
  [m EXCEPT !.sets[set] = init_set,
            !.heap = [a \in DOMAIN m.heap \ SetNodesIn(m, set) |-> m.heap[a]]]

FreshMap(m) == [m EXCEPT !.map = init_map, !.heap = << >>]

\* C15: clear, and free, leave root absent and size 0 whatever the tree held;
\* a second clear changes nothing, clear of an empty tree is safe and changes
\* nothing, and the memory after clear is that of a freshly initialised tree:
\* an insert applied next makes a tree of that one key, a remove finds nothing.
C15_ClearGivesFreshTree ==
  /\ instance = "Set" => \A set \in SetRefs :
       LET c     == Memory(set_clear(SetMem, set))
           fresh == FreshSet(SetMem, set)
       IN
       /\ ~c.fault
       /\ c.sets[set].root = NULL /\ c.sets[set].size = 0
       /\ set_clear(c, set) = c
       /\ Memory(free_set(SetMem, set)) = c /\ free_set(c, set) = c
       /\ c = fresh
       /\ SetStored(set) = {} => c = SetMem
       /\ \A value \in Keys :
            LET i == set_insert(c, set, value) IN
            /\ i.ret = TRUE
            /\ i.m.sets[set].size = 1 /\ SetStoredIn(i.m, set) = {value}
            /\ set_remove(c, set, value).ret = FALSE
            /\ ~set_contains(c, set, value)
  /\ instance = "Map" =>
       LET c     == map_clear(MapMem)
           fresh == FreshMap(MapMem)
       IN
       /\ ~c.fault
       /\ c.map.root = NULL /\ c.map.size = 0
       /\ map_clear(c) = c
       /\ free_map(MapMem) = c /\ free_map(c) = c
       /\ c = fresh
       /\ MapStored = {} => c = MapMem
       /\ \A key \in MapKeys :
            /\ \A value \in Values :
                 LET i == map_insert(c, key, value) IN
                 /\ i.ret = TRUE
                 /\ i.m.map.size = 1 /\ MapStoredIn(i.m) = {key}
            /\ map_remove(c, key).ret = FALSE
            /\ ~map_contains(c, key)

\* A clear has just run and the tree is as init_set or init_map made it.
C15_Witness ==
  /\ op = "clear"
  /\ \/ instance = "Set" /\ sets[TheSet] = init_set /\ heap = << >>
     \/ instance = "Map" /\ map = init_map /\ mheap = << >>

\* The nodes under n with both subtrees of a node before the node itself.
RECURSIVE PostOrder(_, _)
PostOrder(h, n) ==
  IF n = NULL THEN << >>
  ELSE PostOrder(h, h[n].left) \o PostOrder(h, h[n].right) \o << n >>

\* C16: clear on a Set type with a destructor calls the destructor once on the
\* element of every node of the tree, the nodes taken in post-order, and
\* frees each node right after the call on its element, before anything
\* else; on a Set type without a destructor clear only frees the nodes, in
\* post-order, and no destructor call occurs.
C16_ClearDestroysInPostOrder ==
  instance \in {"Set", "AllocatedInt"} =>
    \A set \in SetRefs :
      LET t  == set_clear(SetMem, set).trace
          po == PostOrder(heap, sets[set].root)
      IN /\ Len(po) = Cardinality(SetNodes(set))
         /\ IF FREE_FN
            THEN /\ Len(t) = 2 * Len(po)
                 /\ \A i \in 1..Len(po) :
                      /\ t[2 * i - 1] = [ev |-> "dtor", node |-> po[i],
                                         cell |-> heap[po[i]].value]
                      /\ t[2 * i] = [ev |-> "free", node |-> po[i], cell |-> NULL]
                 /\ set_clear(SetMem, set).destructor_call_count = Len(po)
            ELSE /\ t = [i \in 1..Len(po) |-> [ev |-> "free", node |-> po[i], cell |-> NULL]]
                 /\ set_clear(SetMem, set).destructor_call_count = 0

\* A clear on Set(AllocatedInt) has just destroyed the elements of a tree of
\* three or more nodes while the other set keeps its elements.
C16_Witness ==
  /\ instance = "AllocatedInt" /\ op = "clear"
  /\ destructor_call_count >= 3
  /\ heap # << >>

\* C17: for_each on a Map calls the visitor once per entry, on the entry's
\* key and value, the keys strictly ascending, and hands every call the
\* userdata it was given; on an empty map the visitor is not called; the
\* nodes, their links, colours, keys and values, the root and size are as
\* before.
C17_ForEachVisitsAscending ==
  instance = "Map" =>
    LET abs == MapAbs(MapMem) IN
    \A userdata \in UserData :
      LET f     == map_foreach(MapMem, userdata)
          calls == f.calls
      IN /\ Len(calls) = Cardinality(MapNodes)
         /\ StrictlyAscending([i \in 1..Len(calls) |-> calls[i].key])
         /\ {calls[i].key : i \in 1..Len(calls)} = MapStored
         /\ \A i \in 1..Len(calls) :
              /\ calls[i].userdata = userdata
              /\ calls[i].val = abs[calls[i].key]
         /\ map.root = NULL => calls = << >>
         /\ f.heap = mheap /\ f.map = map /\ ~f.fault

\* A for_each has just walked a map of four or more entries.
C17_Witness ==
  /\ instance = "Map" /\ op = "foreach"
  /\ map.size >= 4 /\ Cardinality(MapNodes) >= 4

\* Number of nodes on the longest and on the shortest path from n down to a
\* null child.
RECURSIVE LongestPath(_, _)
LongestPath(h, n) ==
  IF n = NULL THEN 0
  ELSE LET l == LongestPath(h, h[n].left)
           r == LongestPath(h, h[n].right)
       IN 1 + (IF l >= r THEN l ELSE r)

RECURSIVE ShortestPath(_, _)
ShortestPath(h, n) ==
  IF n = NULL THEN 0
  ELSE LET l == ShortestPath(h, h[n].left)
           r == ShortestPath(h, h[n].right)
       IN 1 + (IF l <= r THEN l ELSE r)

\* height <= 2 * log2(n + 1), in integers: 2^height <= (n + 1)^2.
HeightBound(height, n) == 2 ^ height <= (n + 1) * (n + 1)

\* C18: after any sequence of operations the height of a tree of n nodes is
\* at most 2 * log2(n + 1), and the longest path from the root to a null
\* child has at most twice the nodes of the shortest.
C18_HeightLogarithmic ==
  /\ instance = "Set" => \A set \in SetRefs :
       /\ HeightBound(LongestPath(heap, sets[set].root), sets[set].size)
       /\ HeightBound(LongestPath(heap, sets[set].root), Cardinality(SetNodes(set)))
       /\ LongestPath(heap, sets[set].root) <= 2 * ShortestPath(heap, sets[set].root)
  /\ instance = "Map" =>
       /\ HeightBound(LongestPath(mheap, map.root), map.size)
       /\ HeightBound(LongestPath(mheap, map.root), Cardinality(MapNodes))
       /\ LongestPath(mheap, map.root) <= 2 * ShortestPath(mheap, map.root)

\* A tree whose longest path, of four nodes, is twice its shortest.
C18_Witness ==
  /\ instance = "Set"
  /\ LongestPath(heap, sets[TheSet].root) = 4
  /\ ShortestPath(heap, sets[TheSet].root) = 2

\* The destructor calls on record in memory m, those on zeroed elements included.
DestructorCalls(m) == SelectSeq(m.trace, LAMBDA e : e.ev = "dtor")

\* C19: on a Set type with a destructor, remove frees the node it removes and
\* calls the destructor on nothing: the removed element stays live; an insert
\* rejected as a duplicate frees nothing and calls the destructor on nothing:
\* the rejected element stays live; nor do a successful insert or the
\* inserting walk of join call it.
C19_OnlyClearDestroys ==
  instance = "AllocatedInt" =>
    \A set \in SetRefs :
      /\ DestructorCalls(set_join_recursive(SetMem, CHOOSE d \in SetRefs : d # set,
                                            sets[set].root)) = << >>
      /\ \A val \in JoinKeys :
           LET e == new_element(SetMem, val)
               i == set_insert(e.m, set, e.value)
               r == set_remove(e.m, set, e.value)
               z == CHOOSE n \in SetNodes(set) : cells[heap[n].value] = val
           IN /\ DestructorCalls(i.m) = << >> /\ i.m.destructor_call_count = 0
              /\ i.m.cells = e.m.cells
              /\ ~i.ret => i.m = e.m
              /\ i.ret = (val \notin SetStored(set))
              /\ DestructorCalls(r.m) = << >> /\ r.m.destructor_call_count = 0
              /\ r.m.cells = e.m.cells
              /\ r.ret = (val \in SetStored(set))
              /\ r.ret => /\ r.m.trace = << [ev |-> "free", node |-> z, cell |-> NULL] >>
                          /\ heap[z].value \in DOMAIN r.m.cells
                          /\ z \notin DOMAIN r.m.heap
              /\ ~r.ret => r.m = e.m

\* A remove on Set(AllocatedInt) has just taken an element out of a set of
\* three or more without a destructor call.
C19_Witness ==
  /\ instance = "AllocatedInt" /\ op = "remove" /\ ret = TRUE
  /\ destructor_call_count = 0
  /\ \E set \in SetRefs : sets[set].size >= 2 /\ Cardinality(SetNodes(set)) < MaxJoinKey

\* The nodes under n from left to right.
RECURSIVE InOrder(_, _)
InOrder(h, n) ==
  IF n = NULL THEN << >>
  ELSE InOrder(h, h[n].left) \o << n >> \o InOrder(h, h[n].right)

\* The parent of the root is NULL and the parent of every child is the node
\* it hangs under.
ParentsConsistent(h, root) ==
  /\ root # NULL => h[root].parent = NULL
  /\ \A n \in Sub(h, root) :
       /\ h[n].left # NULL => h[h[n].left].parent = n
       /\ h[n].right # NULL => h[h[n].right].parent = n

\* What a rotation at pivot that lifts child turns the tree (h, root) into
\* (h2, root2): the same nodes in the same order from left to right, each
\* with its fields other than the links, consistent parents, child above
\* pivot, and child the root exactly when pivot was.
RotationKeeps(h, root, h2, root2, pivot, child, fields(_)) ==
  /\ InOrder(h2, root2) = InOrder(h, root)
  /\ DOMAIN h2 = DOMAIN h
  /\ Sub(h2, root2) = Sub(h, root)
  /\ \A n \in DOMAIN h : fields(h2[n]) = fields(h[n])
  /\ ParentsConsistent(h2, root2)
  /\ h2[pivot].parent = child
  /\ h2[child].parent = h[pivot].parent
  /\ (root2 = child) = (root = pivot)
  /\ root # pivot => root2 = root

SetNodeFields(node) == <<node.value, node.color>>
MapNodeFields(node) == <<node.key, node.value, node.color>>

\* C20: rotate_left at a node that has a right child, and rotate_right at a
\* node that has a left child, keep the in-order sequence of the tree, its
\* nodes and their colours, keys and values, leave the parent links
\* consistent, and make the child the root exactly when the pivot was the
\* root; size is untouched.
C20_RotationPreservesOrder ==
  /\ instance = "Set" => \A set \in SetRefs :
       /\ ParentsConsistent(heap, sets[set].root)
       /\ \A x \in SetNodes(set) :
            /\ heap[x].right # NULL =>
                 LET r == rotate_left(SetMem, set, x) IN
                 /\ ~r.fault /\ r.sets[set].size = sets[set].size
                 /\ RotationKeeps(heap, sets[set].root, r.heap, r.sets[set].root,
                                  x, heap[x].right, SetNodeFields)
                 /\ r.heap[heap[x].right].left = x
            /\ heap[x].left # NULL =>
                 LET r == rotate_right(SetMem, set, x) IN
                 /\ ~r.fault /\ r.sets[set].size = sets[set].size
                 /\ RotationKeeps(heap, sets[set].root, r.heap, r.sets[set].root,
                                  x, heap[x].left, SetNodeFields)
                 /\ r.heap[heap[x].left].right = x
  /\ instance = "Map" =>
       /\ ParentsConsistent(mheap, map.root)
       /\ \A x \in MapNodes :
            /\ mheap[x].right # NULL =>
                 LET r == map_rotate_left(MapMem, x) IN
                 /\ ~r.fault /\ r.map.size = map.size
                 /\ RotationKeeps(mheap, map.root, r.heap, r.map.root,
                                  x, mheap[x].right, MapNodeFields)
                 /\ r.heap[mheap[x].right].left = x
            /\ mheap[x].left # NULL =>
                 LET r == map_rotate_right(MapMem, x) IN
                 /\ ~r.fault /\ r.map.size = map.size
                 /\ RotationKeeps(mheap, map.root, r.heap, r.map.root,
                                  x, mheap[x].left, MapNodeFields)
                 /\ r.heap[mheap[x].left].right = x

\* An insert has just left a tree in which a rotation applies at the root, on
\* either side, and at a node below the root whose lifted child has a subtree
\* that changes sides.
C20_Witness ==
  /\ instance = "Set" /\ op = "insert" /\ ret = TRUE
  /\ LET root == sets[TheSet].root IN
     /\ root # NULL /\ heap[root].left # NULL /\ heap[root].right # NULL
     /\ \E x \in SetNodes(TheSet) \ {root} :
          /\ heap[x].right # NULL
          /\ heap[heap[x].right].left # NULL

\* A Set(int), a Map is among the containers of this run.
SetRuns == instance = "Set"
MapRuns == instance = "Map"

\* The steps on record that are rotations, and those that are iterations of
\* the insert fix-up loop.
IsRotation(e) == e.ev \in {"rotate_left", "rotate_right"}
IsInsertIteration(e) == e.ev \in {"red_uncle", "black_uncle"}
Rotations(steps) == Len(SelectSeq(steps, IsRotation))

\* The steps of one insert: every red-uncle iteration starts at a node with
\* a grandparent and is followed, if by any iteration, by one two levels up;
\* a black-uncle iteration is the last one and the only one with rotations,
\* one or two of them.
InsertSteps(steps) ==
  /\ \A i \in 1..Len(steps) :
       /\ steps[i].ev = "red_uncle" =>
            /\ steps[i].depth >= 3
            /\ i < Len(steps) => /\ IsInsertIteration(steps[i + 1])
                                 /\ steps[i + 1].depth = steps[i].depth - 2
       /\ steps[i].ev = "black_uncle" =>
            /\ \A j \in (i + 1)..Len(steps) : IsRotation(steps[j])
            /\ Len(steps) - i \in {1, 2}
       /\ IsRotation(steps[i]) => \E j \in 1..(i - 1) : steps[j].ev = "black_uncle"
       /\ IsRotation(steps[i]) \/ IsInsertIteration(steps[i])
  /\ Rotations(steps) <= 2

\* C21: insert fix-up terminates: an iteration of the red-uncle case moves
\* the current node two levels up, an iteration of the black-or-absent-uncle
\* case is the last one, and one insert makes at most two rotations.
C21_InsertFixupTerminates ==
  /\ SetRuns => \A set \in SetRefs : \A value \in StepKeys :
       LET i == set_insert(Watched(SetMem), set, value).m
       IN ~i.fault /\ InsertSteps(i.steps)
  /\ MapRuns => \A key \in StepKeys :
       LET i == map_insert(Watched(MapMem), key, StepValue).m
       IN ~i.fault /\ InsertSteps(i.steps)

\* A Set(int) into which some insert takes a red-uncle iteration and then,
\* two levels up, a black-uncle iteration that rotates twice.
C21_Witness ==
  /\ instance = "Set"
  /\ \E value \in StepKeys :
       LET steps == set_insert(Watched(SetMem), TheSet, value).m.steps IN
       /\ Rotations(steps) = 2
       /\ \E i \in 1..(Len(steps) - 1) :
            steps[i].ev = "red_uncle" /\ steps[i + 1].ev = "black_uncle"

\* The steps of one remove: the call of the fix-up comes first, and nothing
\* is on record without it; an iteration of the fix-up loop is on record as
\* "body", then "red_sibling" after the rotation of case 1 if the sibling
\* was red, then "black_nephews" (case 2, the anchor already moved),
\* or "far_nephew_red" (case 4) with "near_nephew_red" (case 3) before it.
\* Case 2 leaves the anchor one level above the slot it was in; the next
\* iteration, if any, is one level up; case 4 is followed by its rotation
\* and by nothing else; case 3 by its rotation and case 4.
RemoveSteps(steps) ==
  /\ \A i \in 1..Len(steps) :
       /\ steps[i].ev = "remove_fixup" <=> i = 1
       /\ steps[i].ev = "body" =>
            /\ i < Len(steps)
            /\ \A j \in (i + 1)..Len(steps) :
                 (steps[j].ev = "body" /\ \A k \in (i + 1)..(j - 1) : steps[k].ev # "body")
                   => /\ steps[j].depth = steps[i].depth - 1
                      /\ steps[j].x = steps[i].x_parent
                      /\ steps[j - 1].ev = "black_nephews"
       /\ steps[i].ev = "red_sibling" =>
            /\ i > 2
            /\ steps[i - 1].ev \in {"rotate_left", "rotate_right"}
            /\ steps[i - 2].ev = "body"
       /\ steps[i].ev = "black_nephews" =>
            /\ i > 1
            /\ steps[i - 1].ev \in {"body", "red_sibling"}
            /\ steps[i].x = steps[i - 1].x_parent
            /\ steps[i].depth = steps[i - 1].depth - 1
       /\ steps[i].ev = "near_nephew_red" =>
            /\ i > 1
            /\ steps[i - 1].ev \in {"body", "red_sibling"}
            /\ Len(steps) = i + 3
            /\ IsRotation(steps[i + 1])
            /\ steps[i + 2].ev = "far_nephew_red"
       /\ steps[i].ev = "far_nephew_red" =>
            /\ Len(steps) = i + 1
            /\ IsRotation(steps[i + 1])
       /\ IsRotation(steps[i]) =>
            i > 1 /\ steps[i - 1].ev \in {"body", "near_nephew_red", "far_nephew_red"}
       /\ IsRotation(steps[i])
            \/ steps[i].ev \in {"remove_fixup", "body", "red_sibling", "black_nephews",
                                "near_nephew_red", "far_nephew_red"}
  /\ Rotations(steps) <= 3

\* C22: remove fix-up terminates on the trees the public operations build:
\* an iteration that finds both children of the sibling black or absent
\* moves the anchor one level up, an iteration that finds a red one ends the
\* loop with the anchor at the root, and one remove makes at most three
\* rotations.
C22_RemoveFixupTerminates ==
  /\ SetRuns => \A set \in SetRefs : \A value \in StepKeys :
       LET r == set_remove(Watched(SetMem), set, value).m
       IN ~r.fault /\ RemoveSteps(r.steps)
  /\ MapRuns => \A key \in StepKeys :
       LET r == map_remove(Watched(MapMem), key).m
       IN ~r.fault /\ RemoveSteps(r.steps)

\* A Set(int) from which some remove makes three rotations (one for a red
\* sibling, one for a red near nephew, one for the red far nephew) and some
\* remove runs the fix-up loop twice.
C22_Witness ==
  /\ instance = "Set"
  /\ \E value \in StepKeys : Rotations(set_remove(Watched(SetMem), TheSet, value).m.steps) = 3
  /\ \E value \in StepKeys :
       LET steps == set_remove(Watched(SetMem), TheSet, value).m.steps
       IN \E i \in 1..Len(steps) : \E j \in (i + 1)..Len(steps) :
            steps[i].ev = "body" /\ steps[j].ev = "body"

\* The node a remove of the key in node z splices out of the tree: z when it
\* has at most one child, else the node with the next key.
SplicedOut(h, nodes, z, key(_)) ==
  IF h[z].left = NULL \/ h[z].right = NULL THEN z
  ELSE CHOOSE y \in nodes :
         /\ key(h[y]) > key(h[z])
         /\ \A n \in nodes : key(h[n]) > key(h[z]) => key(h[y]) <= key(h[n])

SetNodeKey(node) == node.value
MapNodeKey(node) == node.key

\* A remove of the key in z, from heap h to heap h2 with the steps on record,
\* ran the fix-up exactly when y, the node spliced out, was black; when y was
\* red nothing is on record and every node left has the colour it had,
\* except y, which has the colour z had.
FixupWhenBlack(h, h2, steps, nodes, z, y, black) ==
  /\ (steps # << >> /\ steps[1].ev = "remove_fixup") <=> h[y].color = black
  /\ h[y].color # black =>
       /\ steps = << >>
       /\ \A n \in nodes \ {z} : h2[n].color = IF n = y THEN h[z].color ELSE h[n].color

\* C23: remove runs the remove fix-up exactly when the node spliced out (the
\* target with at most one child, else its in-order successor) was black;
\* when it was red there is no rotation and no recolouring but the successor
\* taking the colour of the removed node.
C23_FixupOnlyAfterBlackSplice ==
  /\ SetRuns => \A z \in SetNodes(TheSet) :
       LET r == set_remove(Watched(SetMem), TheSet, heap[z].value).m
       IN /\ ~r.fault
          /\ z \notin DOMAIN r.heap
          /\ FixupWhenBlack(heap, r.heap, r.steps, SetNodes(TheSet), z,
                            SplicedOut(heap, SetNodes(TheSet), z, SetNodeKey), SET_BLACK)
  /\ MapRuns => \A z \in MapNodes :
       LET r == map_remove(Watched(MapMem), mheap[z].key).m
       IN /\ ~r.fault
          /\ z \notin DOMAIN r.heap
          /\ FixupWhenBlack(mheap, r.heap, r.steps, MapNodes, z,
                            SplicedOut(mheap, MapNodes, z, MapNodeKey), MAP_BLACK)

\* A Set(int) with a black node of two children whose successor is red, and
\* a red node of two children whose successor is black: the remove of the
\* first runs no fix-up and paints the successor black, the remove of the
\* second runs the fix-up.
C23_Witness ==
  /\ instance = "Set"
  /\ \E z \in SetNodes(TheSet) :
       LET y == SplicedOut(heap, SetNodes(TheSet), z, SetNodeKey)
       IN /\ y # z /\ heap[y].color = SET_RED /\ heap[z].color = SET_BLACK
          /\ set_remove(Watched(SetMem), TheSet, heap[z].value).m.steps = << >>
  /\ \E z \in SetNodes(TheSet) :
       LET y == SplicedOut(heap, SetNodes(TheSet), z, SetNodeKey)
       IN /\ y # z /\ heap[y].color = SET_BLACK /\ heap[z].color = SET_RED
          /\ set_remove(Watched(SetMem), TheSet, heap[z].value).m.steps # << >>

\* The way from the root down to node n: one "left" or "right" per link.
RECURSIVE Path(_, _)
Path(h, n) ==
  IF h[n].parent = NULL THEN << >>
  ELSE Append(Path(h, h[n].parent), IF h[h[n].parent].left = n THEN "left" ELSE "right")

\* The splice of a remove of node z, which has two children, from heap h
\* and root to heap h2 and root2, with s.y the node it moved to the place of
\* z and s.x, s.x_parent the anchor it hands to the fix-up.  y is the node
\* with the next key.
SpliceBySuccessor(h, root, h2, root2, s, z, y) ==
  LET x == h[y].right IN
  /\ s.y = y
  /\ y \in Sub(h, h[z].right) /\ h[y].left = NULL
  \* y is where z was: same parent slot, same way from the root
  /\ h2[y].parent = h[z].parent
  /\ IF h[z].parent = NULL THEN root2 = y
     ELSE IF h[h[z].parent].left = z THEN h2[h[z].parent].left = y
     ELSE h2[h[z].parent].right = y
  /\ Path(h2, y) = Path(h, z)
  \* with the colour and the left subtree of z
  /\ h2[y].color = h[z].color
  /\ h2[y].left = h[z].left /\ h2[h[z].left].parent = y
  \* the right child of y is where y was
  /\ x # NULL => Path(h2, x) = Path(h, y)
  /\ IF h[y].parent = z
     THEN h2[y].right = x
     ELSE /\ h2[h[y].parent].left = x
          /\ h2[y].right = h[z].right /\ h2[h[z].right].parent = y
  \* and the anchor is that child with the node that now holds its slot
  /\ s.x = x
  /\ s.x_parent = (IF h[y].parent = z THEN y ELSE h[y].parent)
  /\ x # NULL => h2[x].parent = s.x_parent
  /\ s.y_original_color = h[y].color

\* C24: when the removed node z has two children, the node in z's place
\* right after the splice is its in-order successor, the minimum of z's right
\* subtree, with z's colour, z's left subtree and z's parent slot; the
\* successor's former right child is in the successor's old place, and the
\* fix-up anchor is that child with its new parent.
C24_SpliceBySuccessor ==
  /\ SetRuns => \A z \in SetNodes(TheSet) :
       (heap[z].left # NULL /\ heap[z].right # NULL) =>
         LET s == set_remove_splice(SetMem, TheSet, z)
         IN SpliceBySuccessor(heap, sets[TheSet].root, s.m.heap, s.m.sets[TheSet].root, s, z,
                              SplicedOut(heap, SetNodes(TheSet), z, SetNodeKey))
  /\ MapRuns => \A z \in MapNodes :
       (mheap[z].left # NULL /\ mheap[z].right # NULL) =>
         LET s == map_remove_splice(MapMem, z)
         IN SpliceBySuccessor(mheap, map.root, s.m.heap, s.m.map.root, s, z,
                              SplicedOut(mheap, MapNodes, z, MapNodeKey))

\* A Set(int) with a node of two children whose successor is its right child,
\* and a node of two children, not the root, whose successor lies deeper and
\* has a right child.
C24_Witness ==
  /\ instance = "Set"
  /\ \E z \in SetNodes(TheSet) :
       /\ heap[z].left # NULL /\ heap[z].right # NULL
       /\ set_remove_splice(SetMem, TheSet, z).y = heap[z].right
  /\ \E z \in SetNodes(TheSet) :
       /\ heap[z].left # NULL /\ heap[z].right # NULL /\ heap[z].parent # NULL
       /\ set_remove_splice(SetMem, TheSet, z).y # heap[z].right
       /\ set_remove_splice(SetMem, TheSet, z).x # NULL

\* Every pass of the remove fix-up loop on record starts with a tracked
\* parent and a sibling, and has both after the rotation of case 1.
SiblingPresent(steps) ==
  \A i \in 1..Len(steps) :
    steps[i].ev \in {"body", "red_sibling"} => steps[i].x_parent # NULL /\ steps[i].w # NULL

\* C26: whenever the body of the remove fix-up loop runs on a tree the
\* public operations built, the tracked parent and the sibling w are not
\* null, before and after the red-sibling rotation, so no null reference is
\* dereferenced.
C26_FixupSiblingNeverNull ==
  /\ SetRuns => \A value \in StepKeys :
       LET r == set_remove(Watched(SetMem), TheSet, value).m
       IN ~r.fault /\ SiblingPresent(r.steps)
  /\ MapRuns => \A key \in StepKeys :
       LET r == map_remove(Watched(MapMem), key).m
       IN ~r.fault /\ SiblingPresent(r.steps)

\* A Set(int) from which some remove enters the fix-up loop with a null
\* anchor and a red sibling, and rotates it away.
C26_Witness ==
  /\ instance = "Set"
  /\ \E value \in StepKeys :
       LET steps == set_remove(Watched(SetMem), TheSet, value).m.steps
       IN \E i \in 1..Len(steps) : \E j \in (i + 1)..Len(steps) :
            /\ steps[i].ev = "body" /\ steps[i].x = NULL
            /\ heap[steps[i].w].color = SET_RED
            /\ steps[j].ev = "red_sibling"

\* C30: during join(dest, src) on two distinct sets the comparator is only
\* applied to live elements: the element being inserted, which is the
\* element of a source node and not zeroed, against elements stored in nodes
\* of dest; no zeroed element is handed to it, and no element stored in dest
\* is zeroed.
C30_JoinComparesLivePayloads ==
  instance \in {"Set", "AllocatedInt"} =>
    \A dest \in SetRefs : \A src \in SetRefs \ {dest} :
      LET j == set_join(Watched(SetMem), dest, src).m
      IN /\ ~j.fault
         /\ \A i \in 1..Len(j.compares) :
              LET c == j.compares[i] IN
              /\ c.a # NULL /\ c.b # NULL
              /\ FREE_FN => Live(SetMem, c.a) /\ Live(SetMem, c.b)
              /\ \E n \in SetNodes(src) : heap[n].value = c.a
              /\ c.x \in SetNodesIn(j, dest) /\ c.x \notin SetNodes(src)
              /\ j.heap[c.x].value = c.b
         /\ \A d \in SetNodesIn(j, dest) :
              /\ j.heap[d].value # NULL
              /\ FREE_FN => Live(j, j.heap[d].value)
              /\ d \in SetNodes(dest) => j.heap[d].value = heap[d].value

\* Two sets of Set(AllocatedInt) whose join moves an element, zeroing it in
\* the source, and then compares a later element of the source, a
\* duplicate, with elements of the destination.
C30_Witness ==
  /\ instance = "AllocatedInt"
  /\ \E dest \in SetRefs : \E src \in SetRefs \ {dest} :
       LET j == set_join(Watched(SetMem), dest, src)
       IN /\ j.ret >= 1 /\ j.ret < sets[src].size
          /\ Len(j.m.compares) >= 4
          /\ \E n \in SetNodes(src) :
               /\ heap[n].value = j.m.compares[Len(j.m.compares)].a
               /\ cells[heap[n].value] \in SetStored(dest)

\* C29: join(s, s) on a set s that is not empty returns 0 and leaves s empty,
\* root absent and size 0: every element collides with itself, nothing is
\* transferred, and the clear that ends the join discards every element,
\* calling the destructor once on each.
C29_SelfJoinEmptiesSet ==
  instance \in {"Set", "AllocatedInt"} =>
    \A s \in SetRefs :
      sets[s].size > 0 =>
        LET j == set_join(Watched(SetMem), s, s)
        IN /\ j.ret = 0 /\ ~j.m.fault
           /\ j.m.sets[s] = [root |-> NULL, size |-> 0]
           /\ DOMAIN j.m.heap = DOMAIN heap \ SetNodes(s)
           \* the walk over s changes nothing: every insert meets its own node
           /\ set_join_recursive(SetMem, s, sets[s].root) = SetMem
           /\ \A n \in SetNodes(s) :
                \E i \in 1..Len(j.m.compares) :
                  /\ j.m.compares[i].a = heap[n].value /\ j.m.compares[i].x = n
                  /\ CompareFunc(SetMem, heap[n].value, heap[n].value) = 0
           \* the other set is left as it is
           /\ \A t \in SetRefs \ {s} :
                /\ j.m.sets[t] = sets[t]
                /\ \A n \in SetNodes(t) : j.m.heap[n] = heap[n]
           /\ FREE_FN =>
                /\ \A n \in SetNodes(s) :
                     /\ TimesDisposed(j.m, heap[n].value) = 1
                     /\ heap[n].value \notin DOMAIN j.m.cells
                /\ Len(Disposals(j.m)) = sets[s].size
                /\ j.m.destructor_call_count = sets[s].size

\* A join on Set(AllocatedInt) has returned 0, disposed of three elements or
\* more and left no node in either set: the set was joined into itself, as a
\* join into another set leaves that set with elements.
C29_Witness ==
  /\ instance = "AllocatedInt" /\ op = "join" /\ ret = 0
  /\ destructor_call_count >= 3
  /\ heap = << >> /\ cells = << >>

\* Nodes met from node n over child links, a link to a block that is not
\* live being met but not followed.
RECURSIVE Linked(_, _)
Linked(h, S) ==
  LET T == S \cup {c \in {h[n].left : n \in S \cap DOMAIN h}
                       \cup {h[n].right : n \in S \cap DOMAIN h} : c # NULL}
  IN IF T = S THEN S ELSE Linked(h, T)

\* The links from root in heap h make a tree: no link to a freed node, no
\* parent above the root, every child pointing back at the node that holds
\* it, and every node held by one slot of one node, none for the root, so
\* that one path and only one leads from the root to it.
TreeLinks(h, root) ==
  LET nodes == IF root = NULL THEN {} ELSE Linked(h, {root}) IN
  /\ nodes \subseteq DOMAIN h
  /\ root # NULL => h[root].parent = NULL
  /\ \A n \in nodes :
       /\ h[n].left # NULL => h[h[n].left].parent = n
       /\ h[n].right # NULL => h[h[n].right].parent = n
       /\ Cardinality({p \in nodes : h[p].left = n}) + Cardinality({p \in nodes : h[p].right = n})
            = IF n = root THEN 0 ELSE 1

\* C27: after every completed insert, remove, clear or join the links make
\* a well-formed tree: the parent of the root is absent, every left or right
\* child has its parent link pointing back, and every node is reached from
\* the root by exactly one path: no cycle, no node shared, no link to a
\* freed node.
C27_LinksMakeATree ==
  /\ ~fault
  /\ \A set \in SetRefs : TreeLinks(heap, sets[set].root)
  /\ \A s \in SetRefs : \A t \in SetRefs \ {s} :
       Linked(heap, {sets[s].root} \ {NULL}) \cap Linked(heap, {sets[t].root} \ {NULL}) = {}
  /\ TreeLinks(mheap, map.root)

\* A join has just moved two elements or more into a set that now holds
\* five, in a tree three levels deep or more.
C27_Witness ==
  /\ instance = "Set" /\ op = "join" /\ ret >= 2
  /\ \E dest \in SetRefs :
       /\ sets[dest].size = 5
       /\ \E n \in SetNodes(dest) : Depth(heap, n) >= 3

\* The tree under node n: nothing for an empty slot, else the key and the
\* colour of n with the trees under its left and right child.
RECURSIVE Shape(_, _, _, _)
Shape(h, n, key(_), red) ==
  IF n = NULL THEN << >>
  ELSE << key(h[n]), IF h[n].color = red THEN "red" ELSE "black",
          Shape(h, h[n].left, key, red), Shape(h, h[n].right, key, red) >>

\* The Set of memory s and the Map of memory r have the same size and the
\* same tree: same shape, same key and same colour in every place.
SameTree(s, r) ==
  /\ ~s.fault /\ ~r.fault
  /\ s.sets[TheSet].size = r.map.size
  /\ Shape(s.heap, s.sets[TheSet].root, SetNodeKey, SET_RED)
       = Shape(r.heap, r.map.root, MapNodeKey, MAP_RED)

\* C25: a Set and a Map given the same sequence of inserts and removes of
\* keys, the Map with any values, return the same value from every call and
\* have after every call the same size and trees of the same shape, with
\* the same key and the same colour in every place.
C25_SetAndMapBalanceAlike ==
  instance = "Pair" =>
    /\ ~fault
    /\ op # "init" => ret.set = ret.map
    /\ SameTree(SetMem, MapMem)
    /\ \A key \in PairKeys : \A value \in Values :
         LET s == set_insert(SetMem, TheSet, key)
             r == map_insert(MapMem, key, value)
         IN s.ret = r.ret /\ SameTree(s.m, r.m)
    /\ \A key \in PairKeys :
         LET s == set_remove(SetMem, TheSet, key)
             r == map_remove(MapMem, key)
         IN s.ret = r.ret /\ SameTree(s.m, r.m)

\* A Set and a Map side by side from which the remove of one key makes three
\* rotations in each, and into which the insert of one key makes two.
C25_Witness ==
  /\ instance = "Pair" /\ op = "remove" /\ ret.set /\ ret.map
  /\ \E key \in PairKeys :
       /\ Rotations(set_remove(Watched(SetMem), TheSet, key).m.steps) = 3
       /\ Rotations(map_remove(Watched(MapMem), key).m.steps) = 3
  /\ \E key \in PairKeys :
       /\ Rotations(set_insert(Watched(SetMem), TheSet, key).m.steps) = 2
       /\ Rotations(map_insert(Watched(MapMem), key, PairValue(key)).m.steps) = 2

\* From heap h to heap h2 every node of h but those in gone is still there
\* and holds what it held, and the nodes h2 has more are those in new.
NodesKeep(h, h2, gone, new, fields(_)) ==
  /\ DOMAIN h2 = (DOMAIN h \ gone) \cup new
  /\ \A n \in DOMAIN h \ gone : fields(h2[n]) = fields(h[n])

MapNodePayload(node) == <<node.key, node.value>>

\* Every reference map_get gives for a key other than key denotes, in memory
\* r as in the current one, the same node with the same key and value.
ReferencesKeep(r, key) ==
  \A k \in MapStored \ {key} :
    /\ map_get(MapMem, k) # NULL
    /\ map_get(r, k) = map_get(MapMem, k)
    /\ r.heap[map_get(r, k)].key = k
    /\ r.heap[map_get(r, k)].value = mheap[map_get(MapMem, k)].value

\* C28: insert and remove relink nodes and copy no element from one node to
\* another: every element stays in its node, key and value unchanged, until
\* the remove of its key; the only write to an element is the Map insert of
\* a key already stored, which replaces the value of that node; a reference
\* map_get gave keeps denoting the value of the same key across inserts and
\* removes of other keys; the node remove reclaims is the one that held the
\* removed key.
C28_ElementsStayInTheirNodes ==
  instance = "Pair" =>
    /\ \A key \in PairKeys :
         LET i == set_insert(SetMem, TheSet, key)
             r == set_remove(SetMem, TheSet, key)
         IN /\ NodesKeep(heap, i.m.heap, {},
                         IF i.ret THEN {n \in DOMAIN i.m.heap : i.m.heap[n].value = key} ELSE {},
                         SetNodeKey)
            /\ i.ret => Cardinality(DOMAIN i.m.heap) = Cardinality(DOMAIN heap) + 1
            /\ NodesKeep(heap, r.m.heap, {n \in DOMAIN heap : heap[n].value = key}, {}, SetNodeKey)
            /\ r.ret = (key \in SetStored(TheSet))
    /\ \A key \in PairKeys :
         LET r == map_remove(MapMem, key)
         IN /\ NodesKeep(mheap, r.m.heap, {n \in DOMAIN mheap : mheap[n].key = key}, {},
                         MapNodePayload)
            /\ r.ret = (key \in MapStored)
            /\ ReferencesKeep(r.m, key)
    /\ \A key \in PairKeys : \A value \in Values :
         LET i == map_insert(MapMem, key, value)
             z == {n \in DOMAIN i.m.heap : i.m.heap[n].key = key}
         IN /\ NodesKeep(mheap, i.m.heap, z, z, MapNodePayload)
            /\ Cardinality(z) = 1
            /\ \A n \in z : /\ i.m.heap[n].value = value
                            /\ n \in DOMAIN mheap <=> ~i.ret
                            /\ n \in DOMAIN mheap => mheap[n].key = key
            /\ ReferencesKeep(i.m, key)

\* A Set and a Map side by side with six keys or more, where the remove of
\* the key of a node with two children rotates twice or more, and the key
\* is stored with a value an insert can replace by another.
C28_Witness ==
  /\ instance = "Pair" /\ map.size >= 6
  /\ \E z \in MapNodes :
       /\ mheap[z].left # NULL /\ mheap[z].right # NULL
       /\ Rotations(map_remove(Watched(MapMem), mheap[z].key).m.steps) >= 2
       /\ \E value \in Values : value # mheap[z].value

====
